---- MODULE Spec2Model ----
(***************************************************************************)
(* Retrieval and session engine of the MCP tool router: the in-memory      *)
(* catalog, the tokenizer, the BM25 and regex search engines and the       *)
(* per-session working-set manager.                                        *)
(*                                                                         *)
(* Strings are TLA+ strings; a character is a string of length 1.  An      *)
(* optional value (title?: string, scoreHint?: number) is a sequence of at *)
(* most one element: << >> is undefined, <<v>> is v.                       *)
(***************************************************************************)
EXTENDS Integers, Sequences, FiniteSets, TLC

\* ------------------------------------------------------------------ bounds
MaxVersion == 2
MaxClock == 2
MaxCalls == 2
MaxSessionCalls == 3

\* ------------------------------------------------------------- characters
LowerChars ==
  {"a","b","c","d","e","f","g","h","i","j","k","l","m",
   "n","o","p","q","r","s","t","u","v","w","x","y","z"}

UpperSeq ==
  <<"A","B","C","D","E","F","G","H","I","J","K","L","M",
    "N","O","P","Q","R","S","T","U","V","W","X","Y","Z">>

LowerSeq ==
  <<"a","b","c","d","e","f","g","h","i","j","k","l","m",
    "n","o","p","q","r","s","t","u","v","w","x","y","z">>

UpperChars == {UpperSeq[i] : i \in 1..26}

DigitChars == {"0","1","2","3","4","5","6","7","8","9"}

LetterChars == LowerChars \cup UpperChars

CharAt(s, i) == SubSeq(s, i, i)

\* U+212A KELVIN SIGN, which the strings of the model write as "$": no
\* ASCII letter, and its lower-case form is "k".
KelvinSign == "$"

\* String.prototype.toLowerCase on one character.
toLowerCase(c) ==
  IF c \in UpperChars
  THEN LowerSeq[CHOOSE i \in 1..26 : UpperSeq[i] = c]
  ELSE IF c = KelvinSign THEN "k"
  ELSE c

\* s.replace(/[class]+/g, " "): every maximal run of characters of the
\* class becomes one space.
ReplaceRuns(s, class) ==
  LET f[i \in 0..Len(s)] ==
        IF i = 0 THEN ""
        ELSE f[i-1] \o
             (IF CharAt(s, i) \in class
              THEN (IF i > 1 /\ CharAt(s, i-1) \in class THEN "" ELSE " ")
              ELSE CharAt(s, i))
  IN f[Len(s)]

\* s.replace(/([first])([second])/g, "$1 $2"): a space between every two
\* adjacent characters of which the first is in `first` and the second in
\* `second` (the two classes used by each call make matches non-overlapping).
InsertSpace(s, first, second) ==
  LET f[i \in 0..Len(s)] ==
        IF i = 0 THEN ""
        ELSE f[i-1] \o CharAt(s, i) \o
             (IF i < Len(s) /\ CharAt(s, i) \in first /\ CharAt(s, i+1) \in second
              THEN " " ELSE "")
  IN f[Len(s)]

MapLower(s) ==
  LET f[i \in 0..Len(s)] ==
        IF i = 0 THEN "" ELSE f[i-1] \o toLowerCase(CharAt(s, i))
  IN f[Len(s)]

\* String.prototype.trim (the only white space of the model is " ").
Trim(s) ==
  LET idx == {i \in 1..Len(s) : CharAt(s, i) # " "}
  IN IF idx = {} THEN ""
     ELSE SubSeq(s, CHOOSE i \in idx : \A j \in idx : i <= j,
                    CHOOSE i \in idx : \A j \in idx : i >= j)

\* s.split(/\s+/g) for a trimmed, non-empty s: the maximal runs of
\* non-space characters, in order.
SplitWs(s) ==
  LET starts == {i \in 1..Len(s) :
                   CharAt(s, i) # " " /\ (i = 1 \/ CharAt(s, i-1) = " ")}
      EndOf(i) == CHOOSE j \in i..Len(s) :
                    /\ \A k \in i..j : CharAt(s, k) # " "
                    /\ (j = Len(s) \/ CharAt(s, j+1) = " ")
      f[n \in 0..Len(s)] ==
        IF n = 0 THEN << >>
        ELSE IF n \in starts THEN Append(f[n-1], SubSeq(s, n, EndOf(n)))
        ELSE f[n-1]
  IN f[Len(s)]

\* Array.prototype.join(" ") on an array of strings.
JoinSp(parts) ==
  LET f[i \in 0..Len(parts)] ==
        IF i = 0 THEN ""
        ELSE IF i = 1 THEN parts[1]
        ELSE f[i-1] \o " " \o parts[i]
  IN f[Len(parts)]

\* value ?? "" for an optional string.
OrEmpty(opt) == IF opt = << >> THEN "" ELSE opt[1]

\* -------------------------------------------------------------- tokenizer
DEFAULT_MIN_TOKEN_LENGTH == 2

DEFAULT_STOPWORDS ==
  {"a", "an", "the", "in", "on", "at", "to", "for", "of", "with", "by", "from",
   "as", "into", "through", "during", "before", "after", "above", "below",
   "between", "under", "and", "or", "but", "so", "yet", "nor", "i", "you", "he",
   "she", "it", "we", "they", "me", "him", "her", "us", "them", "my", "your",
   "his", "its", "our", "their", "is", "are", "was", "were", "be", "been",
   "being", "have", "has", "had", "do", "does", "did", "will", "would", "could",
   "should", "may", "might", "can", "shall", "get", "use", "make", "take", "go",
   "come", "see", "know", "look", "find", "give", "tell", "ask", "work", "seem",
   "feel", "try", "leave", "call", "any", "all", "some", "many", "much", "more",
   "most", "other", "another", "such", "only", "own", "same", "few", "lot",
   "just", "now", "then", "here", "there", "up", "down", "out", "off", "over",
   "again", "further", "once", "too", "very", "this", "that", "these", "those",
   "than", "also", "back", "used", "using", "please", "help", "sure", "way",
   "need", "want", "like", "new", "good", "best", "well", "easy", "simple",
   "quick", "fast", "available", "ready", "clean"}

normalizeText(text) ==
  IF text = "" THEN ""
  ELSE LET s1 == ReplaceRuns(text, {"_", "-"})
           s2 == InsertSpace(s1, LowerChars \cup DigitChars, UpperChars)
           s3 == InsertSpace(s2, LetterChars, DigitChars)
           s4 == InsertSpace(s3, DigitChars, LetterChars)
           s5 == MapLower(s4)
           s6 == ReplaceRuns(s5, {CharAt(s5, i) : i \in 1..Len(s5)}
                                   \ (LowerChars \cup DigitChars))
       IN Trim(s6)

\* SimpleTokenizer.tokenize with the default options.
tokenize(text) ==
  LET normalized == normalizeText(text)
  IN IF normalized = "" THEN << >>
     ELSE SelectSeq(SplitWs(normalized),
                    LAMBDA part : /\ Len(part) >= DEFAULT_MIN_TOKEN_LENGTH
                                  /\ part \notin DEFAULT_STOPWORDS)

\* new SimpleTokenizer(options): << >> is an option that is not given.
SimpleTokenizer(opts) ==
  [stopwords |-> IF opts.stopwords = << >> THEN DEFAULT_STOPWORDS
                 ELSE {MapLower(word) : word \in opts.stopwords[1]},
   minTokenLength |->
     IF opts.minTokenLength = << >> THEN DEFAULT_MIN_TOKEN_LENGTH
     ELSE IF opts.minTokenLength[1] > 1 THEN opts.minTokenLength[1]
     ELSE 1]

\* SimpleTokenizer.tokenize of a tokenizer constructed with options.
tokenizeWith(tokenizer, text) ==
  LET normalized == normalizeText(text)
  IN IF normalized = "" THEN << >>
     ELSE SelectSeq(SplitWs(normalized),
                    LAMBDA part : /\ Len(part) >= tokenizer.minTokenLength
                                  /\ part \notin tokenizer.stopwords)

\* tokenizer.normalize(text).replace(/\s+/g, "")
normalizeForMatch(text) ==
  LET n == normalizeText(text)
      f[i \in 0..Len(n)] ==
        IF i = 0 THEN ""
        ELSE f[i-1] \o (IF CharAt(n, i) = " " THEN "" ELSE CharAt(n, i))
  IN f[Len(n)]

\* ---------------------------------------------------------------- fixtures
\* ToolCards the callers of the model upsert.  toolIds use lower-case
\* letters, "_" and ":" only.
NoArgs == << >>

CardPost ==
  [toolId |-> "s:post_msg", toolName |-> "post_msg", serverId |-> "s",
   title |-> <<"Post">>, description |-> <<"post a msg">>,
   tags |-> <<"chat">>, synonyms |-> <<"send">>,
   args |-> <<[name |-> "body", description |-> <<"msg body">>,
               typeHint |-> << >>, example |-> << >>]>>,
   examples |-> << >>, sideEffect |-> <<"write">>, authHint |-> << >>,
   costHint |-> << >>, popularity |-> << >>]

\* The same toolId with another description: an overwrite that changes
\* the stored card.
CardPostV2 ==
  [CardPost EXCEPT !.description = <<"post msg to a chatRoom">>,
                   !.popularity = <<1>>]

\* The same toolId with other tags.
CardPostRetagged == [CardPost EXCEPT !.tags = <<"ops">>]

CardFind ==
  [toolId |-> "s:find_msg", toolName |-> "find_msg", serverId |-> "s",
   title |-> << >>, description |-> <<"findMsg by text">>,
   tags |-> << >>, synonyms |-> << >>, args |-> NoArgs,
   examples |-> <<[query |-> "find the msg", callHint |-> << >>]>>,
   sideEffect |-> << >>, authHint |-> << >>,
   costHint |-> <<"low">>, popularity |-> << >>]

CardList ==
  [toolId |-> "g:list", toolName |-> "list", serverId |-> "g",
   title |-> <<"List">>, description |-> << >>,
   tags |-> <<"Chat">>, synonyms |-> << >>, args |-> NoArgs,
   examples |-> << >>, sideEffect |-> <<"read">>, authHint |-> << >>,
   costHint |-> << >>, popularity |-> << >>]

\* A card as a JSON-RPC caller can send it (catalog.upsertTools casts the
\* array to ToolCard[] unchecked): the array fields are missing.
CardRaw ==
  [toolId |-> "s:raw", toolName |-> "raw", serverId |-> "s",
   title |-> << >>, description |-> <<"raw">>, sideEffect |-> << >>,
   costHint |-> << >>, popularity |-> << >>]

\* The well-formed cards.
Cards == {CardPost, CardPostV2, CardPostRetagged, CardFind, CardList}

CatalogToolIds == {c.toolId : c \in Cards}

\* A toolId no card of the model has (getTool returns undefined for it).
UnknownToolId == "x:none"

ToolIds == CatalogToolIds \cup {UnknownToolId}

\* ---------------------------------------------------------------- catalog
\* array.map(f).join(" ")
MapJoin(arr, F(_)) == JoinSp([i \in 1..Len(arr) |-> F(arr[i])])

\* buildSearchDoc throws a TypeError when it reads .map or .join of a missing
\* array field.
BuildThrows(tool) ==
  ~ ({"args", "examples", "tags", "synonyms"} \subseteq DOMAIN tool)

buildSearchDoc(tool) ==
  [id |-> tool.toolId,
   name |-> tool.toolName,
   title |-> OrEmpty(tool.title),
   description |-> OrEmpty(tool.description),
   tags |-> JoinSp(tool.tags),
   synonyms |-> JoinSp(tool.synonyms),
   argNames |-> MapJoin(tool.args, LAMBDA arg : arg.name),
   argDescs |-> MapJoin(tool.args, LAMBDA arg : OrEmpty(arg.description)),
   examples |-> MapJoin(tool.examples,
                        LAMBDA ex : ex.query \o " " \o OrEmpty(ex.callHint)),
   serverId |-> tool.serverId]

\* new Date().toISOString() at clock value t.
toISOString(t) == <<"ISO8601", t>>

\* Map.prototype.set / delete on a Map modelled as a function.
\* A function as an explicit table of its values.
Explicit(f) == f @@ << >>

\* const x = v; then F(x): v is evaluated once, whatever F does with x.
With(v, F(_)) == CHOOSE r \in {F(x) : x \in {v}} : TRUE

MapSet(m, k, v) ==
  Explicit([x \in DOMAIN m \cup {k} |-> IF x = k THEN v ELSE m[x]])

MapDelete(m, k) == Explicit([x \in DOMAIN m \ {k} |-> m[x]])

EmptyMap == [x \in {} |-> x]

\* The query strings of the model's searches and updates.
SearchQueries == {"", "msg", "post_msg", "list"}

\* Queries that share no token with any card: the beginning of a tool name,
\* a word no card has, and a word the tokenizer drops.
BoostQueries == {"po", "zz", "a"}

\* ------------------------------------------------------------ memoization
\* The pure text functions are evaluated once per argument: these tables are
\* the functions themselves, restricted to the strings of the model.
DocOf ==
  Explicit([c \in Cards |-> buildSearchDoc(c)])

DocTexts == UNION {{DocOf[c][f] : f \in DOMAIN DocOf[c]} : c \in Cards}

TokensOf ==
  Explicit([t \in DocTexts \cup SearchQueries \cup BoostQueries
              |-> tokenize(t)])

NormalizedOf ==
  Explicit([t \in {c.toolName : c \in Cards}
                  \cup {Trim(q) : q \in SearchQueries \cup BoostQueries}
     |-> normalizeForMatch(t)])

\* ------------------------------------------------------------- collation
\* String.prototype.localeCompare restricted to the characters of toolIds:
\* punctuation sorts before digits, digits before letters.
CollationSeq ==
  <<"_", "-", ":", "0","1","2","3","4","5","6","7","8","9">> \o LowerSeq

CollationRank(c) == CHOOSE i \in 1..Len(CollationSeq) : CollationSeq[i] = c

\* a.localeCompare(b) < 0
LocaleLess(a, b) ==
  \E i \in 1..(Len(b)) :
     /\ i <= Len(a) + 1
     /\ \A j \in 1..(i-1) : CharAt(a, j) = CharAt(b, j)
     /\ \/ i = Len(a) + 1
        \/ /\ i <= Len(a)
           /\ CollationRank(CharAt(a, i)) < CollationRank(CharAt(b, i))

LocaleLessOf ==
  Explicit([p \in ToolIds \X ToolIds |-> LocaleLess(p[1], p[2])])

\* ----------------------------------------------------------- search: BM25
FIELD_KEYS ==
  <<"name", "title", "synonyms", "description", "argNames", "argDescs",
    "tags", "examples", "serverId">>

FieldSet == {FIELD_KEYS[i] : i \in 1..Len(FIELD_KEYS)}

\* Scores are fixed-point numbers with three decimals (1.5 is 1500);
\* field weights carry one decimal (4.0 is 40).
DEFAULT_WEIGHTS ==
  [name |-> 40, title |-> 20, synonyms |-> 25, description |-> 18,
   argNames |-> 14, argDescs |-> 12, tags |-> 12, examples |-> 9,
   serverId |-> 2]

exactMatchBoost == 1500

prefixMatchBoost == 400

\* popularityBoost 0.05 as a fraction of 1000
popularityBoost == 50

minScore == 0

defaultTopK == 20

\* 1000 * ln(n), rounded, for the integers the model takes logarithms of.
LnTable ==
  <<0, 693, 1099, 1386, 1609, 1792, 1946, 2079, 2197, 2303, 2398, 2485>>

Ln1000(n) == LnTable[n]

Range(seq) == {seq[i] : i \in 1..Len(seq)}

\* Map<string, number> of occurrence counts of the tokens of an array.
CountTokens(tokens) ==
  Explicit([t \in Range(tokens) |->
              Cardinality({i \in 1..Len(tokens) : tokens[i] = t})])

mergeWeights(overrides) ==
  Explicit([f \in FieldSet |-> IF f \in DOMAIN overrides THEN overrides[f]
                               ELSE DEFAULT_WEIGHTS[f]])

\* filters is optional; each of its lists is optional too.
matchesFilters(tool, filters) ==
  IF filters = << >> THEN TRUE
  ELSE LET fl == filters[1]
       IN /\ (fl.serverIds # << >> /\ Len(fl.serverIds[1]) > 0)
               => MapLower(tool.serverId)
                    \in {MapLower(v) : v \in Range(fl.serverIds[1])}
          /\ (fl.sideEffects # << >> /\ Len(fl.sideEffects[1]) > 0)
               => (IF tool.sideEffect = << >> THEN "none" ELSE tool.sideEffect[1])
                    \in Range(fl.sideEffects[1])
          /\ (fl.tags # << >> /\ Len(fl.tags[1]) > 0)
               => \E tg \in Range(tool.tags) :
                     MapLower(tg) \in {MapLower(v) : v \in Range(fl.tags[1])}

\* What build() computes from one document: per field the token counts and
\* the token total, and the set of the document's tokens.
DocStats(doc) ==
  LET toks == [f \in FieldSet |-> TokensOf[doc[f]]]
  IN [fieldTokenCounts |-> Explicit([f \in FieldSet |-> CountTokens(toks[f])]),
      fieldLengths |-> Explicit([f \in FieldSet |-> Len(toks[f])]),
      uniqueTokens |-> UNION {Range(toks[f]) : f \in FieldSet}]

DocStatsOf ==
  Explicit([d \in {DocOf[c] : c \in Cards} |-> DocStats(d)])

\* The state of a Bm25Index before its first build.  avgFieldLength[f] is
\* the fraction <<total, docCount>>.
EmptyIndex ==
  [entries |-> EmptyMap, docFreq |-> EmptyMap,
   avgFieldLength |-> [f \in FieldSet |-> <<0, 1>>], docCount |-> 0]

\* Bm25Index.build over the maps a snapshot refers to.  entries is keyed by
\* toolId: the order of the array never reaches a result, since score()
\* sorts its hits by a total order.
Bm25Build(snapTools, snapDocs) ==
  LET ids == {id \in DOMAIN snapDocs : id \in DOMAIN snapTools}
      Entry(id) ==
        With(DocStatsOf[snapDocs[id]],
             LAMBDA st : [tool |-> snapTools[id],
                          doc |-> snapDocs[id],
                          fieldTokenCounts |-> st.fieldTokenCounts,
                          fieldLengths |-> st.fieldLengths,
                          uniqueTokens |-> st.uniqueTokens])
      docCount == Cardinality(DOMAIN snapDocs)
  IN With(Explicit([id \in ids |-> Entry(id)]), LAMBDA entries :
       LET allTokens == UNION {entries[id].uniqueTokens : id \in ids}
           Total(f) ==
             LET sum[S \in SUBSET ids] ==
                   IF S = {} THEN 0
                   ELSE With(CHOOSE x \in S : TRUE, LAMBDA id :
                          entries[id].fieldLengths[f] + sum[S \ {id}])
             IN sum[ids]
       IN [entries |-> entries,
           docFreq |-> Explicit([t \in allTokens |->
                          Cardinality({id \in ids :
                                         t \in entries[id].uniqueTokens})]),
           avgFieldLength |-> Explicit([f \in FieldSet |->
                                 IF docCount = 0 THEN <<0, 1>>
                                 ELSE <<Total(f), docCount>>]),
           docCount |-> docCount])

\* a.startsWith(b)
StartsWith(a, b) == Len(b) <= Len(a) /\ SubSeq(a, 1, Len(b)) = b

\* The score of one entry for the unique query tokens, summed in the order
\* of the loops (Bm25Index.score, the body of the loop over entries).
EntryScore(index, entry, queryTokens, queryTokenCounts, queryText, weights) ==
  LET TokenField(token, f) ==
        LET df == index.docFreq[token]
            \* ln(1 + (N - df + 0.5) / (df + 0.5)) = ln(2N + 2) - ln(2df + 1)
            idf == Ln1000(2 * index.docCount + 2) - Ln1000(2 * df + 1)
            qtf == IF token \in DOMAIN queryTokenCounts
                   THEN queryTokenCounts[token] ELSE 1
            termWeight == (idf * (1000 + Ln1000(qtf))) \div 1000
            tf == IF token \in DOMAIN entry.fieldTokenCounts[f]
                  THEN entry.fieldTokenCounts[f][token] ELSE 0
            fieldLen == entry.fieldLengths[f]
            avg == IF index.avgFieldLength[f][1] = 0 THEN <<1, 1>>
                   ELSE index.avgFieldLength[f]
            \* with k1 = 1.2 and b = 0.75:
            \* denom = tf + 0.3 + 0.9 * fieldLen / avgLen, times 10 * total
            denom == 10 * tf * avg[1] + 3 * avg[1] + 9 * fieldLen * avg[2]
            tfScore == IF denom > 0 THEN (22000 * tf * avg[1]) \div denom ELSE 0
        IN IF tf = 0 THEN 0
           ELSE (weights[f] * termWeight * tfScore) \div 10000
      \* the two nested loops: over the query tokens and over FIELD_KEYS
      fieldSum[ti \in 1..Len(queryTokens), fi \in 0..Len(FIELD_KEYS)] ==
        IF fi = 0 THEN 0
        ELSE fieldSum[ti, fi-1] + TokenField(queryTokens[ti], FIELD_KEYS[fi])
      tokenSum[ti \in 0..Len(queryTokens)] ==
        IF ti = 0 THEN 0
        ELSE tokenSum[ti-1]
             + (IF queryTokens[ti] \in DOMAIN index.docFreq
                THEN fieldSum[ti, Len(FIELD_KEYS)] ELSE 0)
      normalizedQuery == Trim(queryText)
      normalizedName == NormalizedOf[entry.doc.name]
      normalizedQueryName == NormalizedOf[normalizedQuery]
      nameBoost ==
        IF normalizedQuery = "" THEN 0
        ELSE IF normalizedName # "" /\ normalizedName = normalizedQueryName
        THEN exactMatchBoost
        ELSE IF /\ normalizedName # "" /\ normalizedQueryName # ""
                /\ StartsWith(normalizedName, normalizedQueryName)
        THEN prefixMatchBoost
        ELSE 0
      popBoost ==
        IF entry.tool.popularity = << >> THEN 0
        ELSE LET popularity == IF entry.tool.popularity[1] > 0
                               THEN entry.tool.popularity[1] ELSE 0
             IN (Ln1000(1 + popularity) * popularityBoost) \div 1000
  IN tokenSum[Len(queryTokens)] + nameBoost + popBoost

\* A comparator that orders hits of equal score by toolId descending.
HitBefore_idDescending(a, b) ==
  IF b.score # a.score THEN a.score > b.score
  ELSE LocaleLessOf[<<b.toolId, a.toolId>>]

\* hits.sort: score descending, then toolId ascending.
HitBefore(a, b) ==
  IF b.score # a.score THEN a.score > b.score
  ELSE LocaleLessOf[<<a.toolId, b.toolId>>]

SortHits(hitSet) ==
  LET f[S \in SUBSET hitSet] ==
        IF S = {} THEN << >>
        ELSE With(CHOOSE h \in S : \A o \in S \ {h} : HitBefore(h, o),
                  LAMBDA first : <<first>> \o f[S \ {first}])
  IN f[hitSet]

\* A score() that keeps the entries whose score is not above minScore.
Bm25Score_keepAll(index, queryTokens, queryTokenCounts, queryText, weights, filters) ==
  IF Len(queryTokens) = 0 \/ index.docCount = 0 THEN << >>
  ELSE LET scored ==
             {[toolId |-> index.entries[id].tool.toolId,
               score |-> EntryScore(index, index.entries[id], queryTokens,
                                    queryTokenCounts, queryText, weights)]
                : id \in {x \in DOMAIN index.entries :
                            matchesFilters(index.entries[x].tool, filters)}}
       IN SortHits(scored)

\* Bm25Index.score
Bm25Score(index, queryTokens, queryTokenCounts, queryText, weights, filters) ==
  IF Len(queryTokens) = 0 \/ index.docCount = 0 THEN << >>
  ELSE LET scored ==
             {[toolId |-> index.entries[id].tool.toolId,
               score |-> EntryScore(index, index.entries[id], queryTokens,
                                    queryTokenCounts, queryText, weights)]
                : id \in {x \in DOMAIN index.entries :
                            matchesFilters(index.entries[x].tool, filters)}}
       IN With({h \in scored : ~(h.score <= minScore)},
               LAMBDA hits : SortHits(hits))

\* input.topK || dflt: a topK of 0 taken as absent.
TopKOf_orDefault(input, dflt) ==
  LET k == IF input.topK = << >> \/ input.topK = <<0>> THEN dflt
           ELSE input.topK[1]
  IN IF k > 0 THEN k ELSE 0

\* input.topK ?? dflt, then Math.max(0, .)
TopKOf(input, dflt) ==
  LET k == IF input.topK = << >> THEN dflt ELSE input.topK[1]
  IN IF k > 0 THEN k ELSE 0

\* hits.slice(0, topK) for topK > 0, [] otherwise
Limit(hits, topK) ==
  IF topK > 0
  THEN SubSeq(hits, 1, IF Len(hits) < topK THEN Len(hits) ELSE topK)
  ELSE << >>

\* Array.from(new Set(tokens)): the tokens in the order they first occur.
Unique(tokens) ==
  LET f[i \in 0..Len(tokens)] ==
        IF i = 0 THEN << >>
        ELSE IF tokens[i] \in Range(f[i-1]) THEN f[i-1]
        ELSE Append(f[i-1], tokens[i])
  IN f[Len(tokens)]

\* The part of Bm25SearchEngine.query after the version check: the result
\* computed from the (possibly just rebuilt) index; docsSize is
\* snapshot.docs.size.
Bm25Result(index, docsSize, input) ==
  LET queryTokens == TokensOf[input.query]
  IN With(<<Unique(queryTokens), CountTokens(queryTokens),
            mergeWeights(input.weights)>>,
          LAMBDA q :
            With(Bm25Score(index, q[1], q[2], input.query, q[3], input.filters),
                 LAMBDA hits :
                   [hits |-> Limit(hits, TopKOf(input, defaultTopK)),
                    candidates |-> [before |-> docsSize, after |-> Len(hits)]]))

\* ---------------------------------------------------------- search: regex
\* new RegExp(query, "i").test(text) for a query without regular-expression
\* metacharacters (the queries of the model): a case-insensitive substring
\* test.
RegexTest(query, text) ==
  \E i \in 0..(Len(text) - Len(query)) :
     MapLower(SubSeq(text, i + 1, i + Len(query))) = MapLower(query)

RegexTestOf ==
  Explicit([p \in SearchQueries \X {DocOf[c][f] : c \in Cards,
                                         f \in {"name", "title", "description"}}
     |-> RegexTest(p[1], p[2])])

\* The part of RegexSearchEngine.query after the version check, over the
\* maps its snapshot refers to.
RegexResult(snapTools, snapDocs, input) ==
  IF DOMAIN snapDocs = {} THEN
    [hits |-> << >>, candidates |-> [before |-> 0, after |-> 0]]
  ELSE
    LET topK == TopKOf(input, 20)
        Score(doc) ==
          (IF RegexTestOf[<<input.query, doc.name>>] THEN 2000 ELSE 0)
          + (IF RegexTestOf[<<input.query, doc.title>>] THEN 1500 ELSE 0)
          + (IF RegexTestOf[<<input.query, doc.description>>] THEN 1000 ELSE 0)
        ids == {id \in DOMAIN snapDocs :
                  /\ id \in DOMAIN snapTools
                  /\ matchesFilters(snapTools[id], input.filters)
                  /\ Score(snapDocs[id]) > 0}
    IN With({[toolId |-> id, score |-> Score(snapDocs[id])] : id \in ids},
            LAMBDA found :
              With(SortHits(found), LAMBDA hits :
                [hits |-> Limit(hits, topK),
                 candidates |-> [before |-> Cardinality(DOMAIN snapDocs),
                                 after |-> Len(hits)]]))

\* ------------------------------------------------------------ working set
\* DEFAULT_WORKING_SET_OPTIONS; a test or a host overrides defaultTtlMs,
\* defaultBudgetTokens and maxEntries through the constructor.
DEFAULT_WORKING_SET_OPTIONS ==
  [defaultTtlMs |-> 0, defaultTokenCost |-> 120, defaultBudgetTokens |-> 0,
   defaultTopK |-> 20, maxEntries |-> 0]

\* byteLength of an ASCII string
byteLength(text) == Len(text)

\* Math.max(1, Math.ceil(byteLength(text) / 4))
estimateTokensFromText(text) ==
  LET est == (byteLength(text) + 3) \div 4
  IN IF est > 1 THEN est ELSE 1

estimateToolTokens(tool) ==
  LET parts ==
        <<tool.toolId,
          tool.toolName,
          OrEmpty(tool.title),
          OrEmpty(tool.description),
          JoinSp(tool.tags),
          JoinSp(tool.synonyms),
          MapJoin(tool.args,
                  LAMBDA arg : arg.name \o " " \o OrEmpty(arg.description)
                               \o " " \o OrEmpty(arg.typeHint)
                               \o " " \o OrEmpty(arg.example)),
          MapJoin(tool.examples,
                  LAMBDA ex : ex.query \o " " \o OrEmpty(ex.callHint)),
          JoinSp(tool.authHint),
          OrEmpty(tool.sideEffect),
          OrEmpty(tool.costHint)>>
      estimate == estimateTokensFromText(JoinSp(parts))
  IN IF estimate + 12 > 8 THEN estimate + 12 ELSE 8

TokenCostOf ==
  Explicit([c \in Cards |-> estimateToolTokens(c)])

\* getTokenCost over the catalog's tools map
getTokenCost(catTools, opts, toolId) ==
  IF toolId \notin DOMAIN catTools THEN opts.defaultTokenCost
  ELSE TokenCostOf[catTools[toolId]]

\* this.options.defaultTtlMs || undefined
DefaultTtl(opts) == IF opts.defaultTtlMs = 0 THEN << >> ELSE <<opts.defaultTtlMs>>

\* entry.scoreHint ?? 0
ScoreOrZero(entry) == IF entry.scoreHint = << >> THEN 0 ELSE entry.scoreHint[1]

\* The sum of tokenCost over the entries of a session.
\* The number of entries in place of the sum of their costs.
computeUsedTokens_count(entries) == Cardinality(DOMAIN entries)

computeUsedTokens(entries) ==
  LET sum[S \in SUBSET DOMAIN entries] ==
        IF S = {} THEN 0
        ELSE With(CHOOSE x \in S : TRUE,
                  LAMBDA id : entries[id].tokenCost + sum[S \ {id}])
  IN sum[DOMAIN entries]

\* A comparator that looks at the toolId only.
EvictBefore_byId(a, b) == LocaleLessOf[<<a.toolId, b.toolId>>]

\* A comparator that breaks a tie of lastSelectedAt by evicting the greater
\* toolId first.
EvictBefore_greaterIdFirst(a, b) ==
  IF a.lastSelectedAt # b.lastSelectedAt THEN a.lastSelectedAt < b.lastSelectedAt
  ELSE LocaleLessOf[<<b.toolId, a.toolId>>]

\* The comparator of the eviction candidates (enforceBudget,
\* enforceMaxEntries): a sorts before b.
EvictBefore(a, b) ==
  IF a.lastSelectedAt # b.lastSelectedAt THEN a.lastSelectedAt < b.lastSelectedAt
  ELSE IF a.lastUsedAt # b.lastUsedAt THEN a.lastUsedAt < b.lastUsedAt
  ELSE IF ScoreOrZero(a) # ScoreOrZero(b) THEN ScoreOrZero(a) < ScoreOrZero(b)
  ELSE LocaleLessOf[<<a.toolId, b.toolId>>]

\* A comparator that does not put the pinned entries first.
SelectBefore_noPin(a, b) ==
  IF a.lastSelectedAt # b.lastSelectedAt THEN a.lastSelectedAt > b.lastSelectedAt
  ELSE IF a.lastUsedAt # b.lastUsedAt THEN a.lastUsedAt > b.lastUsedAt
  ELSE IF ScoreOrZero(a) # ScoreOrZero(b) THEN ScoreOrZero(a) > ScoreOrZero(b)
  ELSE LocaleLessOf[<<a.toolId, b.toolId>>]

\* The comparator of selectEntries.
SelectBefore(a, b) ==
  IF a.pinned # b.pinned THEN a.pinned
  ELSE IF a.lastSelectedAt # b.lastSelectedAt THEN a.lastSelectedAt > b.lastSelectedAt
  ELSE IF a.lastUsedAt # b.lastUsedAt THEN a.lastUsedAt > b.lastUsedAt
  ELSE IF ScoreOrZero(a) # ScoreOrZero(b) THEN ScoreOrZero(a) > ScoreOrZero(b)
  ELSE LocaleLessOf[<<a.toolId, b.toolId>>]

\* Array.prototype.sort with a comparator that is a total order.
SortSet(S, Before(_, _)) ==
  LET f[T \in SUBSET S] ==
        IF T = {} THEN << >>
        ELSE With(CHOOSE e \in T : \A o \in T \ {e} : Before(e, o),
                  LAMBDA first : <<first>> \o f[T \ {first}])
  IN f[S]

\* Candidates that include the pinned entries.
EvictionCandidates_all(entries) ==
  SortSet({entries[id] : id \in DOMAIN entries}, EvictBefore)

\* The candidates of an eviction, sorted: the non-pinned entries.
EvictionCandidates(entries) ==
  SortSet({entries[id] : id \in {x \in DOMAIN entries : ~entries[x].pinned}},
          EvictBefore)

\* A budget step that evicts nothing.
enforceBudget_noEvict(entries, budgetTokens, removed) ==
  [entries |-> entries, removed |-> removed, used |-> computeUsedTokens(entries)]

\* A budget step that gives up when the pinned entries alone exceed the budget.
enforceBudget_giveUpOnPinnedOverflow(entries, budgetTokens, removed) ==
  With(computeUsedTokens(Explicit([id \in {x \in DOMAIN entries :
                                              entries[x].pinned}
                                     |-> entries[id]])),
       LAMBDA pinnedCost :
         IF pinnedCost > budgetTokens
         THEN [entries |-> entries, removed |-> removed,
               used |-> computeUsedTokens(entries)]
         ELSE enforceBudget_noEvict(entries, budgetTokens, removed))

\* enforceBudget: the entries, the removed set and the used count it leaves.
enforceBudget(entries, budgetTokens, removed) ==
  With(<<computeUsedTokens(entries), EvictionCandidates(entries)>>, LAMBDA c :
    LET total == c[1]
        candidates == c[2]
        \* loop[i]: the state after the first i candidates were visited
        loop[i \in 0..Len(candidates)] ==
          IF i = 0 THEN [gone |-> {}, used |-> total, stop |-> FALSE]
          ELSE With(loop[i-1], LAMBDA p :
                 IF p.stop \/ p.used <= budgetTokens
                 THEN [p EXCEPT !.stop = TRUE]
                 ELSE [gone |-> p.gone \cup {candidates[i].toolId},
                       used |-> p.used - candidates[i].tokenCost,
                       stop |-> FALSE])
    IN IF total <= budgetTokens
       THEN [entries |-> entries, removed |-> removed, used |-> total]
       ELSE With(loop[Len(candidates)], LAMBDA end :
              [entries |-> Explicit([id \in DOMAIN entries \ end.gone
                                       |-> entries[id]]),
               removed |-> removed \cup end.gone,
               used |-> end.used]))

\* A cap step that counts the pinned entries out of the cap.
enforceMaxEntries_capNonPinned(entries, maxEntries, removed) ==
  With(EvictionCandidates(entries), LAMBDA candidates :
    LET excess == Len(candidates) - maxEntries
        n == IF excess > 0 THEN excess ELSE 0
        gone == {candidates[i].toolId : i \in 1..n}
    IN IF maxEntries <= 0
       THEN [entries |-> entries, removed |-> removed]
       ELSE [entries |-> Explicit([id \in DOMAIN entries \ gone
                                     |-> entries[id]]),
             removed |-> removed \cup gone])

\* enforceMaxEntries: the entries and the removed set it leaves.
enforceMaxEntries(entries, maxEntries, removed) ==
  LET count == Cardinality(DOMAIN entries)
      excess == count - maxEntries
  IN IF maxEntries <= 0 \/ count <= maxEntries
     THEN [entries |-> entries, removed |-> removed]
     ELSE With(EvictionCandidates(entries), LAMBDA candidates :
            LET n == IF excess < Len(candidates) THEN excess
                     ELSE Len(candidates)
                gone == {candidates[i].toolId : i \in 1..n}
            IN [entries |-> Explicit([id \in DOMAIN entries \ gone
                                        |-> entries[id]]),
                removed |-> removed \cup gone])

selectEntries(entries) ==
  With(SortSet({entries[id] : id \in DOMAIN entries}, SelectBefore),
       LAMBDA sorted : [i \in 1..Len(sorted) |-> sorted[i].toolId])

\* Array.prototype.sort() without a comparator: UTF-16 code unit order.
CodeUnitSeq ==
  <<"-", "0","1","2","3","4","5","6","7","8","9", ":", "_">> \o LowerSeq

CodeUnitRank(c) == CHOOSE i \in 1..Len(CodeUnitSeq) : CodeUnitSeq[i] = c

CodeUnitLess(a, b) ==
  \E i \in 1..(Len(b)) :
     /\ i <= Len(a) + 1
     /\ \A j \in 1..(i-1) : CharAt(a, j) = CharAt(b, j)
     /\ \/ i = Len(a) + 1
        \/ /\ i <= Len(a)
           /\ CodeUnitRank(CharAt(a, i)) < CodeUnitRank(CharAt(b, i))

CodeUnitLessOf ==
  Explicit([p \in ToolIds \X ToolIds |-> CodeUnitLess(p[1], p[2])])

\* Array.from(set).sort()
SortedIds(S) == SortSet(S, LAMBDA a, b : CodeUnitLessOf[<<a, b>>])

\* The entries of a missing session: ensureSession and get create it empty.
FreshState(sessionId, budgetTokens) ==
  [sessionId |-> sessionId, entries |-> EmptyMap,
   budgetTokens |-> budgetTokens, usedTokens |-> 0]

\* Step 2 of update: the loop over input.pin.
ApplyPins(entries, pin, now, catTools, opts) ==
  LET f[i \in 0..Len(pin)] ==
        IF i = 0 THEN [entries |-> entries, added |-> {}]
        ELSE With(f[i-1], LAMBDA p :
               LET toolId == pin[i]
               IN IF toolId \in DOMAIN p.entries
                  THEN [p EXCEPT !.entries[toolId].pinned = TRUE,
                                 !.entries[toolId].lastSelectedAt = now]
                  ELSE [entries |->
                          MapSet(p.entries, toolId,
                                 [toolId |-> toolId, pinned |-> TRUE,
                                  lastUsedAt |-> 0, lastSelectedAt |-> now,
                                  ttlMs |-> DefaultTtl(opts),
                                  tokenCost |-> getTokenCost(catTools, opts, toolId),
                                  scoreHint |-> << >>]),
                        added |-> p.added \cup {toolId}])
  IN f[Len(pin)]

\* Step 3 of update: the loop over input.unpin.
ApplyUnpins(entries, unpin) ==
  Explicit([id \in DOMAIN entries |->
              IF id \in Range(unpin) THEN [entries[id] EXCEPT !.pinned = FALSE]
              ELSE entries[id]])

\* A TTL loop that also deletes an entry last touched exactly ttlMs ago.
Expired_atTtl(entries, now) ==
  {id \in DOMAIN entries :
     /\ ~entries[id].pinned
     /\ entries[id].ttlMs # << >>
     /\ entries[id].ttlMs[1] > 0
     /\ LET lastTouched ==
              IF entries[id].lastUsedAt > entries[id].lastSelectedAt
              THEN entries[id].lastUsedAt ELSE entries[id].lastSelectedAt
        IN now - lastTouched >= entries[id].ttlMs[1]}

\* Step 4 of update: the toolIds the TTL loop deletes.
Expired(entries, now) ==
  {id \in DOMAIN entries :
     /\ ~entries[id].pinned
     /\ entries[id].ttlMs # << >>
     /\ entries[id].ttlMs[1] > 0
     /\ LET lastTouched ==
              IF entries[id].lastUsedAt > entries[id].lastSelectedAt
              THEN entries[id].lastUsedAt ELSE entries[id].lastSelectedAt
        IN now - lastTouched > entries[id].ttlMs[1]}

\* A hit loop that looks up the cost of an existing entry again.
ApplyHits_refreshCost(entries, hits, now, catTools, opts) ==
  LET f[i \in 0..Len(hits)] ==
        IF i = 0 THEN [entries |-> entries, added |-> {}]
        ELSE With(f[i-1], LAMBDA p :
               LET toolId == hits[i].toolId
                   cost == getTokenCost(catTools, opts, toolId)
               IN IF toolId \in DOMAIN p.entries
                  THEN [p EXCEPT !.entries[toolId].lastSelectedAt = now,
                                 !.entries[toolId].scoreHint = <<hits[i].score>>,
                                 !.entries[toolId].tokenCost = cost]
                  ELSE [entries |->
                          MapSet(p.entries, toolId,
                                 [toolId |-> toolId, pinned |-> FALSE,
                                  lastUsedAt |-> 0, lastSelectedAt |-> now,
                                  ttlMs |-> DefaultTtl(opts),
                                  tokenCost |-> cost,
                                  scoreHint |-> <<hits[i].score>>]),
                        added |-> p.added \cup {toolId}])
  IN f[Len(hits)]

\* A hit loop that counts a hit on an existing entry as a use of the tool.
ApplyHits_hitIsUse(entries, hits, now, catTools, opts) ==
  LET f[i \in 0..Len(hits)] ==
        IF i = 0 THEN [entries |-> entries, added |-> {}]
        ELSE With(f[i-1], LAMBDA p :
               LET toolId == hits[i].toolId
               IN IF toolId \in DOMAIN p.entries
                  THEN [p EXCEPT !.entries[toolId].lastSelectedAt = now,
                                 !.entries[toolId].lastUsedAt = now,
                                 !.entries[toolId].scoreHint = <<hits[i].score>>]
                  ELSE [entries |->
                          MapSet(p.entries, toolId,
                                 [toolId |-> toolId, pinned |-> FALSE,
                                  lastUsedAt |-> 0, lastSelectedAt |-> now,
                                  ttlMs |-> DefaultTtl(opts),
                                  tokenCost |-> getTokenCost(catTools, opts, toolId),
                                  scoreHint |-> <<hits[i].score>>]),
                        added |-> p.added \cup {toolId}])
  IN f[Len(hits)]

\* Step 5 of update: the loop over the hits.
ApplyHits(entries, hits, now, catTools, opts) ==
  LET f[i \in 0..Len(hits)] ==
        IF i = 0 THEN [entries |-> entries, added |-> {}]
        ELSE With(f[i-1], LAMBDA p :
               LET toolId == hits[i].toolId
               IN IF toolId \in DOMAIN p.entries
                  THEN [p EXCEPT !.entries[toolId].lastSelectedAt = now,
                                 !.entries[toolId].scoreHint = <<hits[i].score>>]
                  ELSE [entries |->
                          MapSet(p.entries, toolId,
                                 [toolId |-> toolId, pinned |-> FALSE,
                                  lastUsedAt |-> 0, lastSelectedAt |-> now,
                                  ttlMs |-> DefaultTtl(opts),
                                  tokenCost |-> getTokenCost(catTools, opts, toolId),
                                  scoreHint |-> <<hits[i].score>>]),
                        added |-> p.added \cup {toolId}])
  IN f[Len(hits)]

\* An update whose TTL loop runs first, before the pins and the unpins.
UpdateSteps_ttlFirst(entries0, input, hits, now, catTools, opts) ==
  With(Expired(entries0, now), LAMBDA expired :
  With(Explicit([id \in DOMAIN entries0 \ expired |-> entries0[id]]),
       LAMBDA live :
  With(ApplyPins(live, input.pin, now, catTools, opts), LAMBDA pinned :
  With(ApplyUnpins(pinned.entries, input.unpin), LAMBDA afterTtl :
  With(ApplyHits(afterTtl, hits, now, catTools, opts), LAMBDA hit :
  With(IF opts.maxEntries > 0
       THEN enforceMaxEntries(hit.entries, opts.maxEntries, expired)
       ELSE [entries |-> hit.entries, removed |-> expired], LAMBDA capped :
  With(enforceBudget(capped.entries, input.budgetTokens, capped.removed),
       LAMBDA budgeted :
  With(computeUsedTokens(budgeted.entries), LAMBDA usedTokens :
    LET added == (pinned.added \cup hit.added) \ budgeted.removed
    IN [afterPins |-> afterTtl,
        afterTtl |-> afterTtl,
        afterHits |-> hit.entries,
        afterCap |-> capped.entries,
        entries |-> budgeted.entries,
        usedTokens |-> usedTokens,
        result |-> [selectedToolIds |-> selectEntries(budgeted.entries),
                    addedToolIds |-> SortedIds(added),
                    removedToolIds |-> SortedIds(budgeted.removed),
                    budgetUsed |-> usedTokens,
                    budgetTotal |-> input.budgetTokens]]))))))))

\* update, given the session's entries on entry and the hits the search
\* engine returns: every intermediate map, the final entries and the result.
UpdateSteps(entries0, input, hits, now, catTools, opts) ==
  With(ApplyPins(entries0, input.pin, now, catTools, opts), LAMBDA pinned :
  With(ApplyUnpins(pinned.entries, input.unpin), LAMBDA unpinned :
  With(Expired(unpinned, now), LAMBDA expired :
  With(Explicit([id \in DOMAIN unpinned \ expired |-> unpinned[id]]),
       LAMBDA afterTtl :
  With(ApplyHits(afterTtl, hits, now, catTools, opts), LAMBDA hit :
  With(IF opts.maxEntries > 0
       THEN enforceMaxEntries(hit.entries, opts.maxEntries, expired)
       ELSE [entries |-> hit.entries, removed |-> expired], LAMBDA capped :
  With(enforceBudget(capped.entries, input.budgetTokens, capped.removed),
       LAMBDA budgeted :
  With(computeUsedTokens(budgeted.entries), LAMBDA usedTokens :
    LET added == (pinned.added \cup hit.added) \ budgeted.removed
    IN [afterPins |-> unpinned,
        afterTtl |-> afterTtl,
        afterHits |-> hit.entries,
        afterCap |-> capped.entries,
        entries |-> budgeted.entries,
        usedTokens |-> usedTokens,
        result |-> [selectedToolIds |-> selectEntries(budgeted.entries),
                    addedToolIds |-> SortedIds(added),
                    removedToolIds |-> SortedIds(budgeted.removed),
                    budgetUsed |-> usedTokens,
                    budgetTotal |-> input.budgetTokens]]))))))))

\* ------------------------------------------------------------------ state
VARIABLES
  tools,        \* InMemoryCatalog.tools: the contents of the Map object
  docs,         \* InMemoryCatalog.docs: the contents of the Map object
  version,      \* InMemoryCatalog.version
  updatedAt,    \* InMemoryCatalog.updatedAt
  clock,        \* the wall clock (Date, options.now)
  held,         \* the CatalogSnapshot a caller of getSnapshot holds, if any
  heldSeen,     \* the contents of the two maps when `held` was returned
  bmVersion,    \* Bm25SearchEngine.catalogVersion
  bmIndex,      \* Bm25SearchEngine.index
  rxVersion,    \* RegexSearchEngine.catalogVersion
  rxSnapshot,   \* RegexSearchEngine.snapshot (<< >> is null)
  lastQuery,    \* input and result of the query that led to this state, if any
  options,      \* InMemoryWorkingSetManager.options
  sessions,     \* InMemoryWorkingSetManager.sessions
  lastUpdate,   \* input and outcome of the update that led to this state, if any
  got,          \* the WorkingSetState the last call, a get, returned, while held
  stdout,       \* the response written for the request that led to this state, if any
  pending,      \* the call of a reducer function about to be made, if any
  returned,     \* what the reducer function called last returned, if any
  calls,        \* the number of calls made to the working-set manager
  lastArg,      \* the argument of the operation that produced this state
  lastOp        \* the operation that produced this state

catalogVars == <<tools, docs, version, updatedAt>>
engineVars == <<bmVersion, bmIndex, rxVersion, rxSnapshot>>
wsVars == <<sessions, lastUpdate>>
vars == <<tools, docs, version, updatedAt, clock, held, heldSeen,
          bmVersion, bmIndex, rxVersion, rxSnapshot, lastQuery,
          options, sessions, lastUpdate, got, stdout, pending, returned,
          calls, lastArg, lastOp>>

\* A CatalogSnapshot holds references to the catalog's two Map objects, not
\* copies of them; the catalog never replaces the objects, it mutates them.
ToolsRef == "this.tools"

DocsRef == "this.docs"

\* The contents seen through a reference held in a snapshot.
Deref(ref) == IF ref = ToolsRef THEN tools ELSE docs

getSnapshot ==
  [version |-> version, updatedAt |-> updatedAt,
   tools |-> ToolsRef, docs |-> DocsRef]

\* stats()
stats ==
  [tools |-> Cardinality(DOMAIN tools), indexSize |-> Cardinality(DOMAIN docs),
   updatedAt |-> updatedAt]

\* The options the manager is constructed with: a TTL of one clock unit,
\* no cap on the entries or a cap of two, the other options at their
\* defaults.
WsOptionChoices ==
  {[DEFAULT_WORKING_SET_OPTIONS EXCEPT !.defaultTtlMs = 1, !.maxEntries = n]
     : n \in {0, 2}}

\* The state after createRouterCore, the manager's options among `choices`,
\* before a call among `pendings` of a function of the reducer.
InitPending(choices, pendings) ==
  /\ tools = EmptyMap
  /\ docs = EmptyMap
  /\ version = 0
  /\ updatedAt = toISOString(0)
  /\ clock = 0
  /\ held = << >>
  /\ heldSeen = << >>
  /\ bmVersion = -1
  /\ bmIndex = EmptyIndex
  /\ rxVersion = -1
  /\ rxSnapshot = << >>
  /\ lastQuery = << >>
  /\ options \in choices
  /\ sessions = EmptyMap
  /\ lastUpdate = << >>
  /\ got = << >>
  /\ stdout = << >>
  /\ pending \in pendings
  /\ returned = << >>
  /\ calls = 0
  /\ lastArg = << >>
  /\ lastOp = "init"

\* The state after createRouterCore, the manager's options among `choices`.
InitWith(choices) == InitPending(choices, {<< >>})

Init == InitWith(WsOptionChoices)

\* An operation other than a reducer function leaves `pending` alone and
\* returns no reducer result.
NoReduce == pending' = pending /\ returned' = << >>

\* An operation other than query and update returns neither's result.
NoResult ==
  /\ lastQuery' = << >> /\ lastUpdate' = << >> /\ got' = << >> /\ stdout' = << >>
  /\ NoReduce

\* --------------------------------------------------------- catalog actions
\* The arrays of ToolCards passed to upsertTools.
UpsertInputs ==
  {<< >>, <<CardPost>>, <<CardPostV2>>, <<CardFind>>, <<CardList>>,
   <<CardPost, CardFind>>, <<CardPost, CardPostV2>>,
   <<CardFind, CardList, CardFind>>, <<CardRaw>>, <<CardFind, CardRaw>>}

\* The arrays of toolIds passed to removeTools.
RemoveInputs ==
  {<< >>, <<UnknownToolId>>, <<"s:post_msg">>, <<"s:find_msg">>, <<"g:list">>,
   <<"s:post_msg", "s:post_msg">>, <<"s:find_msg", UnknownToolId, "g:list">>}

\* The loop of upsertTools: the map after setting tools[1..n] in order.
UpsertLoop(m, cards, F(_)) ==
  LET f[i \in 0..Len(cards)] ==
        IF i = 0 THEN m
        ELSE MapSet(f[i-1], cards[i].toolId, F(cards[i]))
  IN f[Len(cards)]

\* A bump on every call, the empty array included.
UpsertBumps_always(m, cards) == TRUE

\* Whether upsertTools, called on the map m, bumps the version: the test
\* tools.length > 0.
UpsertBumps(m, cards) == Len(cards) > 0

\* The index of the first card whose buildSearchDoc throws, 0 when none does.
FirstThrow(cards) ==
  LET bad == {i \in 1..Len(cards) : BuildThrows(cards[i])}
  IN IF bad = {} THEN 0 ELSE CHOOSE i \in bad : \A j \in bad : i <= j

\* upsertTools; when buildSearchDoc throws for tools[k], the loop has set
\* tools[1..k] in this.tools and the docs of tools[1..k-1], and the
\* exception leaves the method before the version test.
upsertTools(cards) ==
  LET k == FirstThrow(cards)
      stored == IF k = 0 THEN cards ELSE SubSeq(cards, 1, k)
      indexed == IF k = 0 THEN cards ELSE SubSeq(cards, 1, k - 1)
      bumps == k = 0 /\ UpsertBumps(tools, cards)
  IN
  /\ bumps => version < MaxVersion
  /\ tools' = UpsertLoop(tools, stored, LAMBDA c : c)
  /\ docs' = UpsertLoop(docs, indexed, LAMBDA c : DocOf[c])
  /\ IF bumps
     THEN version' = version + 1 /\ updatedAt' = toISOString(clock)
     ELSE UNCHANGED <<version, updatedAt>>
  /\ lastOp' = "upsertTools"
  /\ lastArg' = cards
  /\ NoResult
  /\ UNCHANGED <<clock, held, heldSeen, engineVars, options, sessions, calls>>

\* The loop of removeTools: the two maps and the count it leaves.
RemoveLoop(t, d, toolIds) ==
  LET f[i \in 0..Len(toolIds)] ==
        IF i = 0 THEN [tools |-> t, docs |-> d, removed |-> 0]
        ELSE LET p == f[i-1]
             IN IF toolIds[i] \in DOMAIN p.tools
                THEN [tools |-> MapDelete(p.tools, toolIds[i]),
                      docs |-> MapDelete(p.docs, toolIds[i]),
                      removed |-> p.removed + 1]
                ELSE p
  IN f[Len(toolIds)]

removeTools(toolIds) ==
  LET out == RemoveLoop(tools, docs, toolIds)
  IN /\ out.removed > 0 => version < MaxVersion
     /\ tools' = out.tools
     /\ docs' = out.docs
     /\ IF out.removed > 0
        THEN version' = version + 1 /\ updatedAt' = toISOString(clock)
        ELSE UNCHANGED <<version, updatedAt>>
     /\ lastOp' = "removeTools"
     /\ lastArg' = toolIds
     /\ NoResult
     /\ UNCHANGED <<clock, held, heldSeen, engineVars, options, sessions, calls>>

reset ==
  /\ lastOp' = "reset"
  /\ lastArg' = << >>
  /\ NoResult
  /\ UNCHANGED <<clock, held, heldSeen, engineVars, options, sessions, calls>>
  /\ IF Cardinality(DOMAIN tools) = 0
     THEN UNCHANGED catalogVars
     ELSE /\ version < MaxVersion
          /\ tools' = EmptyMap
          /\ docs' = EmptyMap
          /\ version' = version + 1
          /\ updatedAt' = toISOString(clock)

\* A caller takes a snapshot and keeps it.
TakeSnapshot ==
  /\ held' = <<getSnapshot>>
  /\ heldSeen' = <<[tools |-> tools, docs |-> docs]>>
  /\ lastOp' = "getSnapshot"
  /\ lastArg' = << >>
  /\ NoResult
  /\ UNCHANGED <<catalogVars, clock, engineVars, options, sessions, calls>>

Tick ==
  /\ clock < MaxClock
  /\ clock' = clock + 1
  /\ lastOp' = "tick"
  /\ lastArg' = << >>
  /\ NoResult
  /\ UNCHANGED <<catalogVars, held, heldSeen, engineVars, options, sessions, calls>>


\* ---------------------------------------------------------- search actions
NoFilters == << >>

ServerFilter ==
  <<[serverIds |-> <<(<<"S">>)>>, sideEffects |-> << >>, tags |-> << >>]>>

SearchInputs ==
  {[query |-> q, topK |-> k, filters |-> fl, weights |-> EmptyMap, mode |-> m]
     : q \in SearchQueries, k \in {<< >>, <<1>>},
       fl \in {NoFilters, ServerFilter}, m \in {<< >>, <<"regex">>}}

\* snapshot.version !== this.catalogVersion
VersionDiffers(snapshotVersion, catalogVersion) ==
  snapshotVersion # catalogVersion

\* Two engines that keep one catalogVersion between them.
QueryStep_sharedVersion(input) ==
  LET snapshot == getSnapshot
  IN IF input.mode = <<"regex">>
     THEN LET renew == VersionDiffers(snapshot.version, rxVersion)
              snap == IF renew THEN <<snapshot>> ELSE rxSnapshot
          IN [bmVersion |-> IF renew THEN snapshot.version ELSE bmVersion,
              bmIndex |-> bmIndex,
              rxVersion |-> IF renew THEN snapshot.version ELSE rxVersion,
              rxSnapshot |-> snap,
              result |->
                IF snap = << >>
                THEN [hits |-> << >>, candidates |-> [before |-> 0, after |-> 0]]
                ELSE RegexResult(Deref(snap[1].tools), Deref(snap[1].docs), input)]
     ELSE LET rebuild == VersionDiffers(snapshot.version, bmVersion)
          IN With(IF rebuild
                  THEN Bm25Build(Deref(snapshot.tools), Deref(snapshot.docs))
                  ELSE bmIndex,
                  LAMBDA index :
                    [bmVersion |-> IF rebuild THEN snapshot.version ELSE bmVersion,
                     bmIndex |-> index,
                     rxVersion |-> rxVersion, rxSnapshot |-> rxSnapshot,
                     result |-> Bm25Result(index,
                                           Cardinality(DOMAIN Deref(snapshot.docs)),
                                           input)])

\* DualSearchEngine.query: the engines' fields after the call and its result.
QueryStep(input) ==
  LET snapshot == getSnapshot
  IN IF input.mode = <<"regex">>
     THEN LET renew == VersionDiffers(snapshot.version, rxVersion)
              snap == IF renew THEN <<snapshot>> ELSE rxSnapshot
          IN [bmVersion |-> bmVersion, bmIndex |-> bmIndex,
              rxVersion |-> IF renew THEN snapshot.version ELSE rxVersion,
              rxSnapshot |-> snap,
              result |->
                IF snap = << >>
                THEN [hits |-> << >>, candidates |-> [before |-> 0, after |-> 0]]
                ELSE RegexResult(Deref(snap[1].tools), Deref(snap[1].docs), input)]
     ELSE LET rebuild == VersionDiffers(snapshot.version, bmVersion)
          IN With(IF rebuild
                  THEN Bm25Build(Deref(snapshot.tools), Deref(snapshot.docs))
                  ELSE bmIndex,
                  LAMBDA index :
                    [bmVersion |-> IF rebuild THEN snapshot.version ELSE bmVersion,
                     bmIndex |-> index,
                     rxVersion |-> rxVersion, rxSnapshot |-> rxSnapshot,
                     result |-> Bm25Result(index,
                                           Cardinality(DOMAIN Deref(snapshot.docs)),
                                           input)])

query(input) ==
  \E step \in {QueryStep(input)} :
     /\ bmVersion' = step.bmVersion
     /\ bmIndex' = step.bmIndex
     /\ rxVersion' = step.rxVersion
     /\ rxSnapshot' = step.rxSnapshot
     /\ lastQuery' = <<[input |-> input, result |-> step.result]>>
     /\ lastOp' = "query"
     /\ lastArg' = input
     /\ lastUpdate' = << >>
     /\ got' = << >>
     /\ stdout' = << >>
     /\ NoReduce
     /\ UNCHANGED <<catalogVars, clock, held, heldSeen, options, sessions, calls>>

\* ----------------------------------------------------- working-set actions
SessionIds == {"s1"}

Budgets == {30, 60}

PinLists == {<< >>, <<"s:post_msg">>}

UnpinLists == {<< >>, <<"s:post_msg">>}

UpdateInputs ==
  {[sessionId |-> sid, query |-> q, budgetTokens |-> b, topK |-> k,
    pin |-> pin, unpin |-> unpin]
     : sid \in SessionIds, q \in {"msg", "list"}, b \in Budgets,
       k \in {<< >>}, pin \in PinLists, unpin \in UnpinLists}

\* A manager that keeps one state for all sessions.
ensureSession_shared(sessionId, budgetTokens) ==
  IF DOMAIN sessions # {}
  THEN [sessions[CHOOSE s \in DOMAIN sessions : TRUE]
          EXCEPT !.budgetTokens = budgetTokens]
  ELSE FreshState(sessionId, budgetTokens)

\* ensureSession: the state it returns, with budgetTokens set.
ensureSession(sessionId, budgetTokens) ==
  IF sessionId \in DOMAIN sessions
  THEN [sessions[sessionId] EXCEPT !.budgetTokens = budgetTokens]
  ELSE FreshState(sessionId, budgetTokens)

update(input) ==
  LET now == clock
      topK == IF input.topK = << >> THEN options.defaultTopK ELSE input.topK[1]
  IN
  \E state \in {ensureSession(input.sessionId, input.budgetTokens)} :
  \E step \in {QueryStep([query |-> input.query, topK |-> <<topK>>,
                          filters |-> << >>, weights |-> EmptyMap,
                          mode |-> << >>])} :
  \E out \in {UpdateSteps(state.entries, input, step.result.hits, now,
                          tools, options)} :
     /\ calls' = calls + 1
     /\ bmVersion' = step.bmVersion
     /\ bmIndex' = step.bmIndex
     /\ rxVersion' = step.rxVersion
     /\ rxSnapshot' = step.rxSnapshot
     /\ sessions' = MapSet(sessions, input.sessionId,
                           [sessionId |-> input.sessionId,
                            entries |-> out.entries,
                            budgetTokens |-> input.budgetTokens,
                            usedTokens |-> out.usedTokens])
     /\ lastUpdate' = <<[input |-> input, now |-> now,
                         before |-> state.entries,
                         hits |-> step.result.hits,
                         afterPins |-> out.afterPins,
                         afterTtl |-> out.afterTtl,
                         afterHits |-> out.afterHits,
                         afterCap |-> out.afterCap,
                         result |-> out.result]>>
     /\ lastOp' = "update"
     /\ lastArg' = input
     /\ lastQuery' = << >>
     /\ got' = << >>
     /\ stdout' = << >>
     /\ NoReduce
     /\ UNCHANGED <<catalogVars, clock, held, heldSeen, options>>

\* markUsed followed by the budget step of update.
markUsed_thenEnforce(sessionId, toolId) ==
  LET state == ensureSession(sessionId, options.defaultBudgetTokens)
      now == clock
      entries ==
        IF toolId \in DOMAIN state.entries
        THEN [state.entries EXCEPT ![toolId].lastUsedAt = now,
                                   ![toolId].lastSelectedAt = now]
        ELSE MapSet(state.entries, toolId,
                    [toolId |-> toolId, pinned |-> FALSE,
                     lastUsedAt |-> now, lastSelectedAt |-> now,
                     ttlMs |-> DefaultTtl(options),
                     tokenCost |-> getTokenCost(tools, options, toolId),
                     scoreHint |-> << >>])
  IN /\ calls' = calls + 1
     /\ sessions' = MapSet(sessions, sessionId,
                           [state EXCEPT !.entries =
                              enforceBudget(entries, state.budgetTokens, {}).entries])
     /\ lastOp' = "markUsed"
     /\ lastArg' = <<sessionId, toolId>>
     /\ NoResult
     /\ UNCHANGED <<catalogVars, clock, held, heldSeen, engineVars, options>>

\* InMemoryWorkingSetManager.markUsed
markUsed(sessionId, toolId) ==
  LET state == ensureSession(sessionId, options.defaultBudgetTokens)
      now == clock
      entries ==
        IF toolId \in DOMAIN state.entries
        THEN [state.entries EXCEPT ![toolId].lastUsedAt = now,
                                   ![toolId].lastSelectedAt = now]
        ELSE MapSet(state.entries, toolId,
                    [toolId |-> toolId, pinned |-> FALSE,
                     lastUsedAt |-> now, lastSelectedAt |-> now,
                     ttlMs |-> DefaultTtl(options),
                     tokenCost |-> getTokenCost(tools, options, toolId),
                     scoreHint |-> << >>])
  IN /\ calls' = calls + 1
     /\ sessions' = MapSet(sessions, sessionId, [state EXCEPT !.entries = entries])
     /\ lastOp' = "markUsed"
     /\ lastArg' = <<sessionId, toolId>>
     /\ NoResult
     /\ UNCHANGED <<catalogVars, clock, held, heldSeen, engineVars, options>>

\* A reference to the entry object stored for toolId in a session.
EntryRef(sessionId, toolId) == [session |-> sessionId, entry |-> toolId]

\* cloneState: a new state object with a new entries object; the values of
\* the new entries object are the entry objects of the stored one.
cloneState(state) ==
  [state EXCEPT !.entries =
     Explicit([id \in DOMAIN state.entries |-> EntryRef(state.sessionId, id)])]

\* get: creates the session when it is missing; the caller receives the
\* clone.
get(sessionId) ==
  LET state == IF sessionId \in DOMAIN sessions THEN sessions[sessionId]
               ELSE FreshState(sessionId, options.defaultBudgetTokens)
  IN /\ calls' = calls + 1
     /\ lastArg' = <<sessionId>>
     /\ sessions' = IF sessionId \in DOMAIN sessions THEN sessions
                    ELSE MapSet(sessions, sessionId, state)
     /\ got' = <<cloneState(state)>>
     /\ stdout' = << >>
     /\ NoReduce
     /\ lastOp' = "get"
     /\ lastQuery' = << >>
     /\ lastUpdate' = << >>
     /\ UNCHANGED <<catalogVars, clock, held, heldSeen, engineVars, options>>

\* What the caller of get may do to the state it received while it holds
\* it.  An entry of the received state is a reference or an object of the
\* caller's own.
IsRef(e) == DOMAIN e = {"session", "entry"}

\* state.entries[toolId].pinned = value
CallerWritesEntry(toolId, value) ==
  /\ got # << >>
  /\ toolId \in DOMAIN got[1].entries
  /\ LET e == got[1].entries[toolId]
     IN IF IsRef(e)
        THEN /\ sessions' = [sessions EXCEPT
                               ![e.session].entries[e.entry].pinned = value]
             /\ got' = got
        ELSE /\ got' = <<[got[1] EXCEPT !.entries[toolId].pinned = value]>>
             /\ sessions' = sessions
  /\ lastOp' = "callerWritesEntry"
  /\ lastArg' = <<toolId, value>>
  /\ UNCHANGED <<catalogVars, clock, held, heldSeen, engineVars, options,
                 lastQuery, lastUpdate, stdout, pending, returned,
                 calls>>

\* delete state.entries[toolId]
CallerDeletesEntry(toolId) ==
  /\ got # << >>
  /\ toolId \in DOMAIN got[1].entries
  /\ got' = <<[got[1] EXCEPT !.entries = MapDelete(got[1].entries, toolId)]>>
  /\ lastOp' = "callerDeletesEntry"
  /\ lastArg' = <<toolId>>
  /\ UNCHANGED <<catalogVars, clock, held, heldSeen, engineVars, options,
                 sessions, lastQuery, lastUpdate, stdout, pending, returned,
                 calls>>

\* state.entries[toolId] = { ...a new entry object }
CallerAddsEntry(toolId) ==
  /\ got # << >>
  /\ got' = <<[got[1] EXCEPT !.entries =
                 MapSet(got[1].entries, toolId,
                        [toolId |-> toolId, pinned |-> TRUE, lastUsedAt |-> 0,
                         lastSelectedAt |-> 0, ttlMs |-> << >>,
                         tokenCost |-> 0, scoreHint |-> << >>])]>>
  /\ lastOp' = "callerAddsEntry"
  /\ lastArg' = <<toolId>>
  /\ UNCHANGED <<catalogVars, clock, held, heldSeen, engineVars, options,
                 sessions, lastQuery, lastUpdate, stdout, pending, returned,
                 calls>>

\* state.budgetTokens = value; state.usedTokens = value
CallerWritesTotals(value) ==
  /\ got # << >>
  /\ got' = <<[got[1] EXCEPT !.budgetTokens = value, !.usedTokens = value]>>
  /\ lastOp' = "callerWritesTotals"
  /\ lastArg' = <<value>>
  /\ UNCHANGED <<catalogVars, clock, held, heldSeen, engineVars, options,
                 sessions, lastQuery, lastUpdate, stdout, pending, returned,
                 calls>>

\* A reset that empties the session's entries and keeps its state.
resetSession_keepState(sessionId) ==
  /\ calls' = calls + 1
  /\ lastArg' = <<sessionId>>
  /\ sessions' = IF sessionId \in DOMAIN sessions
                 THEN [sessions EXCEPT ![sessionId].entries = EmptyMap,
                                       ![sessionId].usedTokens = 0]
                 ELSE sessions
  /\ lastOp' = "resetSession"
  /\ NoResult
  /\ UNCHANGED <<catalogVars, clock, held, heldSeen, engineVars, options>>

\* InMemoryWorkingSetManager.reset
resetSession(sessionId) ==
  /\ calls' = calls + 1
  /\ lastArg' = <<sessionId>>
  /\ sessions' = MapDelete(sessions, sessionId)
  /\ lastOp' = "resetSession"
  /\ NoResult
  /\ UNCHANGED <<catalogVars, clock, held, heldSeen, engineVars, options>>

\* ------------------------------------------------------- JSON-RPC daemon
\* JSON values as far as handleRequest and the handlers tell them apart.
JsonNull == [t |-> "null"]

\* The id member of a request; << >> is a request without one.
RpcIds ==
  {<< >>, <<JsonNull>>, <<[t |-> "number", v |-> 7]>>,
   <<[t |-> "boolean", v |-> TRUE]>>}

\* params that are no object.
NumberParams == [t |-> "number"]

\* params of catalog.upsertTools: an object with a tools array.
ToolsParams(cards) ==
  [t |-> "object", tools |-> <<cards>>, sessionId |-> << >>, query |-> << >>,
   budgetTokens |-> << >>]

\* params of ws.update whose budgetTokens is a string.
StringBudgetParams ==
  [t |-> "object", tools |-> << >>,
   sessionId |-> <<[t |-> "string", v |-> "s1"]>>,
   query |-> <<[t |-> "string", v |-> "msg"]>>,
   budgetTokens |-> <<[t |-> "string", v |-> "60"]>>]

\* The method and params members the model's requests carry; << >> is a
\* request without a method.
RpcCalls ==
  {<<<<"catalog.upsertTools">>, ps>>
     : ps \in {NumberParams, ToolsParams(<<CardPost>>),
               ToolsParams(<<CardFind, CardRaw>>)}}
  \cup {<<<<"ws.update">>, ps>> : ps \in {NumberParams, StringBudgetParams}}
  \cup {<<md, [t |-> "undefined"]>>
          : md \in {<<"catalog.reset">>, <<"catalog.stats">>, <<"no.such">>,
                    << >>}}

\* The parsed lines: a JSON value that is no object, and request objects.
RpcPayloads ==
  {[json |-> "number"]}
  \cup {[json |-> "object", jsonrpc |-> <<"2.0">>, method |-> call[1],
         params |-> call[2], id |-> id]
          : call \in RpcCalls, id \in RpcIds}
  \cup {[json |-> "object", jsonrpc |-> << >>, method |-> <<"catalog.stats">>,
         params |-> [t |-> "undefined"], id |-> id]
          : id \in RpcIds}

\* The methods of createRpcHandlers the model's requests name.
HandlerNames ==
  {"catalog.upsertTools", "catalog.reset", "catalog.stats", "ws.update"}

isValidId(id) == id # << >> /\ id[1].t \in {"null", "string", "number"}

expectStringFails(member) == member = << >> \/ member[1].t # "string"

expectNumberFails(member) == member = << >> \/ member[1].t # "number"

makeError(id, code) == [jsonrpc |-> "2.0", id |-> id, error |-> code]

\* The handler throws an RpcError before it calls the core: expectObject,
\* then expectArray for catalog.upsertTools, expectString and expectNumber
\* for ws.update.
ParamsRejected(method, params) ==
  CASE method = "catalog.upsertTools" ->
         params.t # "object" \/ params.tools = << >>
    [] method = "ws.update" ->
         \/ params.t # "object"
         \/ expectStringFails(params.sessionId)
         \/ expectStringFails(params.query)
         \/ expectNumberFails(params.budgetTokens)
    [] OTHER -> FALSE

\* handleRequest returns a response where it does not return null: always
\* before the handler is looked up and called, and after the call when the
\* payload has an id member.
Responds(payload, called) == ~called \/ payload.id # << >>

\* handleLine for a line that parses to `payload` (not an array):
\* handleRequest, the handler it calls, and writeResponse.
handleLine(payload) ==
  LET isRec == payload.json = "object"
      valid == isRec /\ payload.jsonrpc = <<"2.0">> /\ payload.method # << >>
      known == valid /\ payload.method[1] \in HandlerNames
      method == IF known THEN payload.method[1] ELSE "none"
      rejected == known /\ ParamsRejected(method, payload.params)
      cards == IF method = "catalog.upsertTools" /\ ~rejected
               THEN payload.params.tools[1] ELSE << >>
      k == FirstThrow(cards)
      stored == IF k = 0 THEN cards ELSE SubSeq(cards, 1, k)
      indexed == IF k = 0 THEN cards ELSE SubSeq(cards, 1, k - 1)
      bumps == k = 0 /\ UpsertBumps(tools, cards)
      id == IF isRec /\ isValidId(payload.id) THEN payload.id[1] ELSE JsonNull
      response ==
        IF ~isRec THEN makeError(JsonNull, -32600)
        ELSE IF ~valid THEN makeError(id, -32600)
        ELSE IF ~known THEN makeError(id, -32601)
        ELSE IF rejected THEN makeError(id, -32602)
        ELSE IF k # 0 THEN makeError(id, -32000)
        ELSE [jsonrpc |-> "2.0", id |-> id,
              result |-> CASE method = "catalog.upsertTools" ->
                                [count |-> Len(cards)]
                           [] method = "catalog.stats" -> stats
                           [] OTHER -> [count |-> 0]]
  IN /\ stdout' = IF ~isRec \/ Responds(payload, known) THEN <<response>>
                  ELSE << >>
     /\ CASE method = "catalog.upsertTools" /\ ~rejected ->
               /\ bumps => version < MaxVersion
               /\ tools' = UpsertLoop(tools, stored, LAMBDA c : c)
               /\ docs' = UpsertLoop(docs, indexed, LAMBDA c : DocOf[c])
               /\ IF bumps
                  THEN version' = version + 1 /\ updatedAt' = toISOString(clock)
                  ELSE UNCHANGED <<version, updatedAt>>
          [] method = "catalog.reset" /\ Cardinality(DOMAIN tools) # 0 ->
               /\ version < MaxVersion
               /\ tools' = EmptyMap
               /\ docs' = EmptyMap
               /\ version' = version + 1
               /\ updatedAt' = toISOString(clock)
          [] OTHER -> UNCHANGED catalogVars
     /\ NoReduce
     /\ lastOp' = "handleLine"
     /\ lastArg' = payload
     /\ lastQuery' = << >>
     /\ lastUpdate' = << >>
     /\ got' = << >>
     /\ UNCHANGED <<clock, held, heldSeen, engineVars, options, sessions, calls>>

\* ------------------------------------------------------------ utils: text
\* A JavaScript string is the sequence of its UTF-16 code units.  An ASCII
\* unit is written as the character itself; the others are named.
EAcute == "U+00E9"

Euro == "U+20AC"

\* U+1F600 is the pair HighSurrogate, LowSurrogate.
HighSurrogate == "U+D83D"

LowSurrogate == "U+DE00"

Emoji == <<HighSurrogate, LowSurrogate>>

\* The bytes TextEncoder writes for one code unit that is not part of a
\* pair: a lone surrogate is encoded as U+FFFD.
UnitBytes(unit) ==
  CASE unit = EAcute -> 2
    [] unit \in {Euro, HighSurrogate, LowSurrogate} -> 3
    [] OTHER -> 1

StartsWithPair(text) ==
  Len(text) >= 2 /\ text[1] = HighSurrogate /\ text[2] = LowSurrogate

\* byteLength of a string given by its code units.
RECURSIVE byteLengthOf(_)
byteLengthOf(text) ==
  IF text = << >> THEN 0
  ELSE IF StartsWithPair(text)
       THEN 4 + byteLengthOf(SubSeq(text, 3, Len(text)))
       ELSE UnitBytes(text[1]) + byteLengthOf(Tail(text))

\* text.slice(0, end)
slice(text, end) == SubSeq(text, 1, end)

\* The while loop of truncateByBytes.
RECURSIVE TruncateLoop(_, _, _, _)
TruncateLoop(text, maxBytes, low, high) ==
  IF low < high
  THEN LET mid == (low + high + 1) \div 2
       IN IF byteLengthOf(slice(text, mid)) <= maxBytes
          THEN TruncateLoop(text, maxBytes, mid, high)
          ELSE TruncateLoop(text, maxBytes, low, mid - 1)
  ELSE low

\* A truncateByBytes that takes the cap for a number of code units.
truncateByBytes_byUnits(text, maxBytes) ==
  LET totalBytes == byteLengthOf(text)
      truncated == slice(text, IF maxBytes < Len(text) THEN maxBytes
                               ELSE Len(text))
  IN IF maxBytes <= 0 THEN [text |-> << >>, droppedBytes |-> totalBytes]
     ELSE IF totalBytes <= maxBytes THEN [text |-> text, droppedBytes |-> 0]
     ELSE [text |-> truncated,
           droppedBytes |-> totalBytes - byteLengthOf(truncated)]

truncateByBytes(text, maxBytes) ==
  LET totalBytes == byteLengthOf(text)
      truncated == slice(text, TruncateLoop(text, maxBytes, 0, Len(text)))
  IN IF maxBytes <= 0 THEN [text |-> << >>, droppedBytes |-> totalBytes]
     ELSE IF totalBytes <= maxBytes THEN [text |-> text, droppedBytes |-> 0]
     ELSE [text |-> truncated,
           droppedBytes |-> totalBytes - byteLengthOf(truncated)]

\* The texts of at most n code points of one to four bytes each.
CodePoints == {<<"a">>, <<EAcute>>, <<Euro>>, Emoji}

MaxCodePoints == 3

RECURSIVE TextsUpTo(_)
TextsUpTo(n) ==
  IF n = 0 THEN {<< >>}
  ELSE TextsUpTo(n - 1)
       \cup {t \o c : t \in TextsUpTo(n - 1), c \in CodePoints}

MaxBytesChoices == 0 .. 5

TruncateCalls ==
  {[fn |-> "truncateByBytes", text |-> t, maxBytes |-> b]
     : t \in TextsUpTo(MaxCodePoints), b \in MaxBytesChoices}

\* A caller applies truncateByBytes to the pending arguments.
CallTruncateByBytes ==
  /\ pending # << >>
  /\ pending[1].fn = "truncateByBytes"
  /\ returned' = <<truncateByBytes(pending[1].text, pending[1].maxBytes)>>
  /\ pending' = << >>
  /\ lastOp' = "truncateByBytes"
  /\ lastArg' = pending[1]
  /\ UNCHANGED <<catalogVars, clock, held, heldSeen, engineVars, lastQuery,
                 options, sessions, lastUpdate, got, stdout, calls>>

\* ---------------------------------------------------------- utils: values
\* A JavaScript value: null, a number, a string, an array, a plain object,
\* or a reference to an object that encloses it (a cycle).  An array or an
\* object that is referenced from more than one place carries its identity
\* in oid and is written out at each place; one that is referenced once has
\* oid << >>.  The fields of an object are a function from keys to values:
\* both functions that read the keys sort them first.
Num(n) == [t |-> "number", v |-> n]

Str(text) == [t |-> "string", v |-> text]

Arr(oid, items) == [t |-> "array", oid |-> oid, items |-> items]

Obj(oid, fields) == [t |-> "object", oid |-> oid, fields |-> fields]

Ref(id) == [t |-> "ref", oid |-> <<id>>]

IsObject(value) == value.t \in {"array", "object", "ref"}

\* The code units of the keys of the model, in ascending order.
KeyUnits ==
  <<"C", "E", "a", "b", "c", "d", "e", "i", "n", "o", "r", "s", "t", "u", "x">>

UnitRank(unit) == CHOOSE i \in 1 .. Len(KeyUnits) : KeyUnits[i] = unit

\* Array.prototype.sort without a comparator: by UTF-16 code units.
RECURSIVE KeyLess(_, _)
KeyLess(a, b) ==
  IF a = << >> THEN b # << >>
  ELSE IF b = << >> THEN FALSE
  ELSE IF a[1] = b[1] THEN KeyLess(Tail(a), Tail(b))
  ELSE UnitRank(a[1]) < UnitRank(b[1])

\* Object.keys(record).sort()
SortedKeys(fields) == SortSet(DOMAIN fields, KeyLess)

Circular == Str(<<"[", "C", "i", "r", "c", "u", "l", "a", "r", "]">>)

\* sortValue returns the sorted value; `seen` is the WeakSet it adds to,
\* returned with it.  A reference to an enclosing object finds that object
\* in seen, which the call for the enclosing object put there.
RECURSIVE sortValue(_, _)
RECURSIVE sortEntries(_, _, _)
RECURSIVE sortFields(_, _, _, _)
sortValue(value, seen) ==
  IF ~IsObject(value) THEN [value |-> value, seen |-> seen]
  ELSE IF value.t = "ref" \/ (value.oid # << >> /\ value.oid[1] \in seen)
  THEN [value |-> Circular, seen |-> seen]
  ELSE LET added == seen \cup {value.oid[i] : i \in 1 .. Len(value.oid)}
       IN IF value.t = "array"
          THEN sortEntries(value.items, added, << >>)
          ELSE sortFields(value.fields, SortedKeys(value.fields), added,
                          EmptyMap)

\* value.map((entry) => sortValue(entry, seen))
sortEntries(items, seen, done) ==
  IF items = << >> THEN [value |-> Arr(<< >>, done), seen |-> seen]
  ELSE LET r == sortValue(items[1], seen)
       IN sortEntries(Tail(items), r.seen, Append(done, r.value))

\* for (const key of keys) sorted[key] = sortValue(record[key], seen)
sortFields(fields, keys, seen, done) ==
  IF keys = << >> THEN [value |-> Obj(<< >>, done), seen |-> seen]
  ELSE LET r == sortValue(fields[keys[1]], seen)
       IN sortFields(fields, Tail(keys), r.seen,
                     done @@ (keys[1] :> r.value))

Digits == <<"0", "1", "2", "3", "4", "5", "6", "7", "8", "9">>

Quoted(text) == <<"\"">> \o text \o <<"\"">>

\* JSON.stringify of a value without cycles; the strings of the model hold
\* no unit that JSON escapes, the numbers are single digits.
RECURSIVE JSONstringify(_)
RECURSIVE JoinItems(_)
RECURSIVE JoinFields(_, _)
JSONstringify(value) ==
  CASE value.t = "null" -> <<"n", "u", "l", "l">>
    [] value.t = "boolean" ->
         IF value.v THEN <<"t", "r", "u", "e">>
         ELSE <<"f", "a", "l", "s", "e">>
    [] value.t = "number" -> <<Digits[value.v + 1]>>
    [] value.t = "string" -> Quoted(value.v)
    [] value.t = "array" -> <<"[">> \o JoinItems(value.items) \o <<"]">>
    [] value.t = "object" ->
         <<"{">> \o JoinFields(value.fields, SortedKeys(value.fields))
           \o <<"}">>

JoinItems(items) ==
  IF items = << >> THEN << >>
  ELSE JSONstringify(items[1])
         \o (IF Len(items) > 1 THEN <<",">> ELSE << >>)
         \o JoinItems(Tail(items))

JoinFields(fields, keys) ==
  IF keys = << >> THEN << >>
  ELSE Quoted(keys[1]) \o <<":">> \o JSONstringify(fields[keys[1]])
         \o (IF Len(keys) > 1 THEN <<",">> ELSE << >>)
         \o JoinFields(fields, Tail(keys))

stableStringify(value) == JSONstringify(sortValue(value, {}).value)

\* The arguments of stableStringify: trees, an object that holds itself,
\* an array that holds itself through an object, and objects that hold one
\* sub-object twice without a cycle.
SharedLeaf == Obj(<<1>>, (<<"x">> :> Num(1)))

StringifyValues ==
  {JsonNull, Num(7), Str(<<"a", "b">>),
   Arr(<< >>, <<Num(1), Num(2)>>),
   Obj(<< >>, (<<"b">> :> Num(2)) @@ (<<"a">> :> Num(1))),
   Obj(<< >>, (<<"b">> :> Arr(<< >>, <<JsonNull>>)) @@ (<<"a", "b">> :> Str(<<"x">>))),
   Obj(<<1>>, (<<"s">> :> Ref(1))),
   Arr(<<1>>, <<Obj(<< >>, (<<"a">> :> Ref(1))), Num(3)>>),
   Obj(<< >>, (<<"a">> :> SharedLeaf) @@ (<<"b">> :> SharedLeaf)),
   Arr(<< >>, <<SharedLeaf, Num(0), SharedLeaf>>),
   Obj(<<2>>, (<<"a">> :> SharedLeaf) @@ (<<"c">> :> Ref(2)))}

StringifyCalls == {[fn |-> "stableStringify", value |-> v] : v \in StringifyValues}

\* A caller applies stableStringify to the pending argument.
CallStableStringify ==
  /\ pending # << >>
  /\ pending[1].fn = "stableStringify"
  /\ returned' = <<stableStringify(pending[1].value)>>
  /\ pending' = << >>
  /\ lastOp' = "stableStringify"
  /\ lastArg' = pending[1]
  /\ UNCHANGED <<catalogVars, clock, held, heldSeen, engineVars, lastQuery,
                 options, sessions, lastUpdate, got, stdout, calls>>

\* --------------------------------------------------------- result reducer
DEFAULT_OPTIONS ==
  [maxTextBytes |-> 12000, maxStructuredBytes |-> 24000,
   maxStructuredKeys |-> 200, maxStructuredItems |-> 200, maxDepth |-> 6]

Bool(b) == [t |-> "boolean", v |-> b]

Newline == "U+000A"

KeyText == <<"t", "e", "x", "t">>

KeyContent == <<"c", "o", "n", "t", "e", "n", "t">>

KeyStructured == <<"s", "t", "r", "u", "c", "t", "u", "r", "e", "d">>

KeyStructuredContent == KeyStructured \o <<"C">> \o Tail(KeyContent)

KeyIsError == <<"i", "s", "E", "r", "r", "o", "r">>

Truncated ==
  Str(<<"[", "T", "r", "u", "n", "c", "a", "t", "e", "d", "]">>)

ErrorTag == <<"[", "e", "r", "r", "o", "r", "]">>

\* value[key], << >> where it is undefined
Member(value, key) ==
  IF key \in DOMAIN value.fields THEN <<value.fields[key]>> ELSE << >>

\* Arrays are no plain objects.
isPlainObject(value) == value.t = "object"

IsStructure(value) == value.t \in {"array", "object"}

\* parts.join("\n")
RECURSIVE JoinLines(_)
JoinLines(parts) ==
  IF parts = << >> THEN << >>
  ELSE parts[1] \o (IF Len(parts) > 1 THEN <<Newline>> ELSE << >>)
         \o JoinLines(Tail(parts))

\* The strings extractTextFromContent pushes for the blocks of an array.
RECURSIVE ContentParts(_)
ContentParts(blocks) ==
  IF blocks = << >> THEN << >>
  ELSE LET block == blocks[1]
           part ==
             IF block.t = "string" THEN <<block.v>>
             ELSE IF block.t = "object" /\ Member(block, KeyText) # << >>
                       /\ Member(block, KeyText)[1].t = "string"
                  THEN <<Member(block, KeyText)[1].v>>
                  ELSE << >>
       IN part \o ContentParts(Tail(blocks))

\* content is << >> where rawResult has no content member.
extractTextFromContent(content) ==
  IF content = << >> THEN << >>
  ELSE IF content[1].t = "string" THEN content[1].v
  ELSE IF content[1].t # "array" THEN << >>
  ELSE JoinLines(ContentParts(content[1].items))

\* value.slice(0, limit): a negative limit counts from the end.
SliceItems(items, limit) ==
  IF limit >= 0 THEN SubSeq(items, 1, limit)
  ELSE SubSeq(items, 1, Len(items) + limit)

Min(a, b) == IF a < b THEN a ELSE b

\* The values reduce is given are trees.
RECURSIVE reduceStructuredValue(_, _, _)
RECURSIVE ReduceKeys(_, _, _, _, _)
reduceStructuredValue(value, opts, depth) ==
  IF depth >= opts.maxDepth THEN Truncated
  ELSE IF value.t = "array"
  THEN LET kept == SliceItems(value.items,
                              Min(Len(value.items),
                                  opts.maxStructuredItems))
       IN Arr(<< >>, [i \in 1 .. Len(kept) |->
                        reduceStructuredValue(kept[i], opts, depth + 1)])
  ELSE IF isPlainObject(value)
  THEN LET keys == SortedKeys(value.fields)
       IN ReduceKeys(value, opts, depth,
                     SubSeq(keys, 1, Min(Len(keys),
                                        opts.maxStructuredKeys)),
                     EmptyMap)
  ELSE value

\* The for loop over keys[0 .. limit - 1]; `if (!key) continue` skips the
\* empty key.
ReduceKeys(value, opts, depth, keys, reduced) ==
  IF keys = << >> THEN Obj(<< >>, reduced)
  ELSE ReduceKeys(value, opts, depth, Tail(keys),
         IF keys[1] = << >> THEN reduced
         ELSE reduced @@ (keys[1] :>
                reduceStructuredValue(value.fields[keys[1]], opts,
                                      depth + 1)))

\* text.trim(), the white space of the model being the space.
RECURSIVE trimStart(_)
trimStart(text) ==
  IF text # << >> /\ text[1] = " " THEN trimStart(Tail(text)) ELSE text

RECURSIVE trimEnd(_)
trimEnd(text) ==
  IF text # << >> /\ text[Len(text)] = " "
  THEN trimEnd(SubSeq(text, 1, Len(text) - 1)) ELSE text

trim(text) == trimEnd(trimStart(text))

\* The arrays and objects whose JSON text the model's strings may hold.
JsonDocuments ==
  {Arr(<< >>, <<Num(1), Num(2)>>),
   Arr(<< >>, <<Arr(<< >>, <<Num(1), Arr(<< >>, <<Num(2)>>)>>)>>),
   Obj(<< >>, (<<"a">> :> Num(1))),
   Obj(<< >>, (<<"b">> :> Num(2)) @@ (<<"a">> :> Str(<<"x">>))),
   Obj(<< >>, (<< >> :> Num(1)) @@ (<<"a">> :> Num(2)))}

\* JSON.parse of a text without white space between its tokens: the value
\* of which the text is the JSON text; << >> where it throws.
JSONparse(text) ==
  LET found == {v \in JsonDocuments : JSONstringify(v) = text}
  IN IF found = {} THEN << >> ELSE <<CHOOSE v \in found : TRUE>>

\* << >> is undefined.
tryParseJson(text) ==
  LET trimmed == trim(text)
  IN IF trimmed = << >> THEN << >>
     ELSE IF trimmed[1] \notin {"{", "["} THEN << >>
     ELSE JSONparse(trimmed)

\* The names a policy may set; a policy is a function from some of them to
\* values.
OptionNames == DOMAIN DEFAULT_OPTIONS

\* readNumber: a value that is no finite number falls back.
mergePolicy(policy) ==
  [key \in OptionNames |->
     IF key \in DOMAIN policy /\ policy[key].t = "number"
     THEN policy[key].v ELSE DEFAULT_OPTIONS[key]]

\* A reduce that takes the trimmed string for the text.
TextOfString_trimmed(rawResult) == trim(rawResult.v)

\* text = rawResult, for a rawResult that is a string.
TextOfString(rawResult) == rawResult.v

\* The first branch of reduce: text, structured and notes before the error
\* tag and the limits.
Normalized(rawResult) ==
  CASE rawResult.t = "null" ->
         [text |-> << >>, structured |-> << >>, notes |-> << >>]
    [] rawResult.t = "string" ->
         LET parsed == tryParseJson(rawResult.v)
         IN IF parsed # << >> /\ IsStructure(parsed[1])
            THEN [text |-> TextOfString(rawResult), structured |-> parsed,
                  notes |-> <<"parsed_json">>]
            ELSE [text |-> TextOfString(rawResult), structured |-> << >>,
                  notes |-> << >>]
    [] IsStructure(rawResult) ->
         LET first == IF isPlainObject(rawResult)
                      THEN Member(rawResult, KeyStructured) ELSE << >>
             maybeStructured ==
               IF ~isPlainObject(rawResult) THEN << >>
               ELSE IF first # << >> /\ first[1].t # "null" THEN first
               ELSE Member(rawResult, KeyStructuredContent)
             preferred ==
               maybeStructured # << >> /\ IsStructure(maybeStructured[1])
             textField == IF isPlainObject(rawResult)
                          THEN Member(rawResult, KeyText) ELSE << >>
             own == IF ~isPlainObject(rawResult) THEN << >>
                    ELSE IF textField # << >> /\ textField[1].t = "string"
                    THEN textField[1].v
                    ELSE extractTextFromContent(
                           Member(rawResult, KeyContent))
         IN [text |-> IF own # << >> THEN own
                      ELSE stableStringify(rawResult),
             structured |-> IF preferred THEN maybeStructured
                            ELSE <<rawResult>>,
             notes |-> IF preferred THEN <<"structured_preferred">>
                       ELSE << >>]
    [] OTHER ->
         [text |-> JSONstringify(rawResult), structured |-> << >>,
          notes |-> << >>]

\* Math.ceil(droppedBytes / 4) when positive, else 0
droppedTokensEstimateOf(droppedBytes) ==
  IF droppedBytes > 0 THEN (droppedBytes + 3) \div 4 ELSE 0

\* DefaultResultReducer.reduce, constructed without options.
ReduceStep(rawResult, policy) ==
  LET opts == mergePolicy(policy)
      start == Normalized(rawResult)
      isError == /\ isPlainObject(rawResult)
                 /\ Member(rawResult, KeyIsError) = <<Bool(TRUE)>>
      tagged == IF ~isError THEN start.text
                ELSE IF start.text # << >>
                THEN ErrorTag \o <<" ">> \o start.text
                ELSE ErrorTag
      has == start.structured # << >>
      beforeBytes ==
        IF has THEN byteLengthOf(stableStringify(start.structured[1]))
        ELSE 0
      reduced ==
        IF has THEN reduceStructuredValue(start.structured[1], opts, 0)
        ELSE JsonNull
      afterBytes == IF has THEN byteLengthOf(stableStringify(reduced)) ELSE 0
      dropped == has /\ afterBytes > opts.maxStructuredBytes
      structuredBytes ==
        IF ~has THEN 0
        ELSE IF dropped THEN beforeBytes
        ELSE IF beforeBytes > afterBytes THEN beforeBytes - afterBytes
        ELSE 0
      cut == byteLengthOf(tagged) > opts.maxTextBytes
      truncated == truncateByBytes(tagged, opts.maxTextBytes)
      droppedBytes ==
        structuredBytes + (IF cut THEN truncated.droppedBytes ELSE 0)
  IN [text |-> IF cut THEN truncated.text ELSE tagged,
      structured |-> IF has /\ ~dropped THEN <<reduced>> ELSE << >>,
      droppedBytes |-> droppedBytes,
      droppedTokensEstimate |-> droppedTokensEstimateOf(droppedBytes),
      notes |-> start.notes
                \o (IF isError THEN <<"is_error">> ELSE << >>)
                \o (IF dropped THEN <<"structured_dropped">>
                    ELSE IF has /\ afterBytes < beforeBytes
                    THEN <<"structured_trimmed">> ELSE << >>)
                \o (IF cut THEN <<"text_truncated">> ELSE << >>)]

\* The raw results of the model.
RawStrings ==
  {<<"a", "b">>, <<"a", Euro>>, Emoji \o <<"a">>, <<"[", "1">>}
  \cup {JSONstringify(v) : v \in JsonDocuments}
  \cup {<<" ">> \o JSONstringify(Arr(<< >>, <<Num(1), Num(2)>>))}

TextHi == Str(<<"h", "i">>)

RawObjects ==
  {Obj(<< >>, (KeyText :> TextHi)),
   Obj(<< >>, (KeyText :> TextHi) @@ (KeyIsError :> Bool(TRUE))),
   Obj(<< >>, (KeyText :> Str(Emoji \o <<"a">>))
                @@ (KeyIsError :> Bool(TRUE))),
   Obj(<< >>, (KeyIsError :> Bool(TRUE))),
   Obj(<< >>, (KeyContent :>
                 Arr(<< >>, <<Str(<<"a">>),
                              Obj(<< >>, (KeyText :> Str(<<"b">>))),
                              Num(1)>>))),
   Obj(<< >>, (KeyStructured :>
                 Obj(<< >>, (<<"b">> :> Num(2)) @@ (<<"a">> :> Num(1))))
                @@ (KeyContent :>
                      Arr(<< >>, <<Obj(<< >>, (KeyText :> TextHi))>>))),
   Obj(<< >>, (KeyStructuredContent :> Arr(<< >>, <<Num(1), Num(2)>>))
                @@ (KeyStructured :> JsonNull)),
   Obj(<< >>, (<<"a">> :> Obj(<< >>, (<<"b">> :> Arr(<< >>, <<Num(1)>>))))
                @@ (<<"c">> :> Num(3))),
   Arr(<< >>, <<Num(1), Num(2), Num(3)>>)}
  \cup JsonDocuments

RawResults ==
  {JsonNull, Num(7)} \cup {Str(text) : text \in RawStrings} \cup RawObjects

\* One member of a policy, or none.
PolicyMember(key, choice) ==
  IF choice = << >> THEN EmptyMap ELSE (key :> choice[1])

Policies ==
  {PolicyMember("maxTextBytes", t) @@ PolicyMember("maxStructuredBytes", b)
     @@ PolicyMember("maxStructuredKeys", k)
     @@ PolicyMember("maxStructuredItems", i) @@ PolicyMember("maxDepth", d)
     : t \in {<< >>, <<Num(0)>>, <<Num(3)>>, <<Num(10)>>, <<Num(-1)>>,
              <<Str(<<"3">>)>>},
       b \in {<< >>, <<Num(6)>>},
       k \in {<< >>, <<Num(1)>>},
       i \in {<< >>, <<Num(1)>>},
       d \in {<< >>, <<Num(0)>>, <<Num(1)>>, <<Num(2)>>}}

ReduceCalls ==
  {[fn |-> "reduce", rawResult |-> r, policy |-> p]
     : r \in RawResults, p \in Policies}

\* A caller applies reduce to the pending arguments.
reduce ==
  /\ pending # << >>
  /\ pending[1].fn = "reduce"
  /\ returned' = <<ReduceStep(pending[1].rawResult, pending[1].policy)>>
  /\ pending' = << >>
  /\ lastOp' = "reduce"
  /\ lastArg' = pending[1]
  /\ UNCHANGED <<catalogVars, clock, held, heldSeen, engineVars, lastQuery,
                 options, sessions, lastUpdate, got, stdout, calls>>

\* ------------------------------------------------------ tokenizer, applied
\* The characters of the texts given to the tokenizer.
TextChars == <<"a", "k", "B", "1", "_", " ", KelvinSign>>

MaxTextLen == 4

RECURSIVE StringsUpTo(_)
StringsUpTo(n) ==
  IF n = 0 THEN {""}
  ELSE StringsUpTo(n - 1)
       \cup {s \o TextChars[i] : s \in StringsUpTo(n - 1),
                                 i \in 1 .. Len(TextChars)}

TokenizerOptionChoices ==
  {[stopwords |-> sw, minTokenLength |-> len]
     : sw \in {<< >>, <<{}>>, <<{"AK"}>>}, len \in {<< >>, <<0>>, <<3>>}}

TokenizeCalls ==
  {[fn |-> "tokenize", text |-> s, options |-> o]
     : s \in StringsUpTo(MaxTextLen), o \in TokenizerOptionChoices}

\* A caller tokenizes the pending text, and its normalized form, with a
\* tokenizer constructed from the pending options.
CallTokenize ==
  /\ pending # << >>
  /\ pending[1].fn = "tokenize"
  /\ \E tokenizer \in {SimpleTokenizer(pending[1].options)} :
       returned' =
         <<[tokens |-> tokenizeWith(tokenizer, pending[1].text),
            normalized |-> normalizeText(pending[1].text),
            ofNormalized |->
              tokenizeWith(tokenizer, normalizeText(pending[1].text))]>>
  /\ pending' = << >>
  /\ lastOp' = "tokenize"
  /\ lastArg' = pending[1]
  /\ UNCHANGED <<catalogVars, clock, held, heldSeen, engineVars, lastQuery,
                 options, sessions, lastUpdate, got, stdout, calls>>

\* ---------------------------------------------------------- specifications
\* The catalog and the snapshots its callers hold.
NextCatalog ==
  \/ \E cards \in UpsertInputs : upsertTools(cards)
  \/ \E ids \in RemoveInputs : removeTools(ids)
  \/ reset
  \/ TakeSnapshot
  \/ Tick

SpecCatalog == Init /\ [][NextCatalog]_vars

\* The catalog and the two search engines.
NextSearch ==
  \/ \E cards \in UpsertInputs : upsertTools(cards)
  \/ \E ids \in RemoveInputs : removeTools(ids)
  \/ reset
  \/ \E input \in SearchInputs : query(input)

SpecSearch == Init /\ [][NextSearch]_vars

\* The two search engines asked for all, one, no and fewer than no hits.
TopKInputs ==
  {[query |-> "msg", topK |-> k, filters |-> fl, weights |-> EmptyMap,
    mode |-> m]
     : k \in {<< >>, <<1>>, <<0>>, <<-1>>}, fl \in {NoFilters, ServerFilter},
       m \in {<< >>, <<"regex">>}}

NextTopK ==
  \/ \E cards \in {<<CardPost, CardFind, CardList>>, <<CardFind, CardRaw>>} :
        upsertTools(cards)
  \/ \E ids \in {<<"s:find_msg">>} : removeTools(ids)
  \/ reset
  \/ \E input \in TopKInputs : query(input)

SpecTopK == Init /\ [][NextTopK]_vars

\* The two search engines asked with filters: each list absent, empty, or
\* holding one value, written in another case than the cards write it.
FilterChoices ==
  {<<[serverIds |-> sv, sideEffects |-> se, tags |-> tg]>>
     : sv \in {<< >>, <<(<< >>)>>, <<(<<"S">>)>>, <<(<<"other">>)>>},
       se \in {<< >>, <<(<<"none">>)>>},
       tg \in {<< >>, <<(<<"CHAT">>)>>}}

FilterInputs ==
  {[query |-> q, topK |-> << >>, filters |-> fl, weights |-> EmptyMap,
    mode |-> m]
     : q \in {"", "msg"}, fl \in FilterChoices \cup {NoFilters},
       m \in {<< >>, <<"regex">>}}

NextFilters ==
  \/ \E cards \in {<<CardPost, CardFind, CardList>>,
                   <<CardPostRetagged, CardRaw>>} :
        upsertTools(cards)
  \/ \E ids \in {<<"s:find_msg">>} : removeTools(ids)
  \/ reset
  \/ \E input \in FilterInputs : query(input)

SpecFilters == Init /\ [][NextFilters]_vars

\* The two search engines asked the same few queries again and again, with
\* and without a topK, a filter and a weight of their own.
RepeatInputs ==
  {[query |-> "msg", topK |-> k, filters |-> fl, weights |-> w, mode |-> m]
     : k \in {<< >>, <<1>>}, fl \in {NoFilters, ServerFilter},
       w \in {EmptyMap, [f \in {"description"} |-> 0]},
       m \in {<< >>, <<"regex">>}}

NextRepeat ==
  \/ \E cards \in {<<CardPost, CardFind, CardList>>, << >>,
                   <<CardFind, CardRaw>>} : upsertTools(cards)
  \/ \E ids \in {<<"s:find_msg">>} : removeTools(ids)
  \/ reset
  \/ \E input \in RepeatInputs : query(input)

SpecRepeat == Init /\ [][NextRepeat]_vars

\* The daemon reading one request per line.
NextRpc ==
  \/ \E payload \in RpcPayloads : handleLine(payload)
  \/ Tick

SpecRpc == Init /\ [][NextRpc]_vars

\* The functions of utils, each applied once to arguments drawn beforehand.
InitUtils ==
  InitPending(WsOptionChoices,
              {<<c>> : c \in TruncateCalls \cup StringifyCalls})

NextUtils ==
  \/ CallTruncateByBytes
  \/ CallStableStringify

SpecUtils == InitUtils /\ [][NextUtils]_vars

\* The tokenizer, applied once to a text and options drawn beforehand.
InitTokenize == InitPending(WsOptionChoices, {<<c>> : c \in TokenizeCalls})

NextTokenize == CallTokenize

SpecTokenize == InitTokenize /\ [][NextTokenize]_vars

\* The reducer, applied once to a raw result and a policy drawn beforehand.
InitReduce == InitPending(WsOptionChoices, {<<c>> : c \in ReduceCalls})

NextReduce == reduce

SpecReduce == InitReduce /\ [][NextReduce]_vars

\* The working-set manager over a catalog that changes.  The cards are
\* well-formed: estimateToolTokens reads the same array fields as
\* buildSearchDoc.
WsUpserts == {<<CardPost, CardFind, CardList>>, <<CardPostV2>>}

WsRemoves == {<<"s:find_msg">>}

MarkUsedIds == {"s:find_msg", UnknownToolId}

Next ==
  \/ \E cards \in WsUpserts : upsertTools(cards)
  \/ \E ids \in WsRemoves : removeTools(ids)
  \/ reset
  \/ Tick
  \/ calls < MaxCalls /\ \E input \in UpdateInputs : update(input)
  \/ calls < MaxCalls /\ \E sid \in SessionIds, id \in MarkUsedIds : markUsed(sid, id)
  \/ calls < MaxCalls /\ \E sid \in SessionIds : get(sid)
  \/ calls < MaxCalls /\ \E sid \in SessionIds : resetSession(sid)

Spec == Init /\ [][Next]_vars

\* The working-set manager over a catalog that is loaded once, its TTL
\* option at the default (0: entries have no TTL) or at one clock unit, and
\* update called with and without a mode.
TtlOptionChoices ==
  {[DEFAULT_WORKING_SET_OPTIONS EXCEPT !.defaultTtlMs = t] : t \in {0, 1}}

InitUpdate == InitWith(TtlOptionChoices)

ModeUpdateInputs ==
  {[sessionId |-> "s1", query |-> q, budgetTokens |-> b, topK |-> << >>,
    pin |-> pin, unpin |-> unpin, mode |-> md]
     : q \in {"msg", "post_msg"}, b \in Budgets,
       pin \in PinLists, unpin \in UnpinLists, md \in {<< >>, <<"regex">>}}

NextUpdate ==
  \/ version = 0 /\ upsertTools(<<CardPost, CardFind, CardList>>)
  \/ Tick
  \/ calls < MaxCalls /\ \E input \in ModeUpdateInputs : update(input)
  \/ calls < MaxCalls /\ \E id \in {"s:post_msg", "s:find_msg"} : markUsed("s1", id)

SpecUpdate == InitUpdate /\ [][NextUpdate]_vars

\* Two sessions of one manager over a catalog that is loaded once, and the
\* caller of get writing to the state it received.
SessionPair == {"s1", "s2"}

\* The manager's options: a TTL of one clock unit, a cap of two entries and
\* a default budget of 0 (the default) or 40.
SessionOptionChoices ==
  {[DEFAULT_WORKING_SET_OPTIONS EXCEPT !.defaultTtlMs = 1, !.maxEntries = 2,
                                       !.defaultBudgetTokens = b]
     : b \in {0, 40}}

InitSessions == InitWith(SessionOptionChoices)

PairUpdateInputs ==
  {[sessionId |-> sid, query |-> "msg", budgetTokens |-> b, topK |-> << >>,
    pin |-> pin, unpin |-> << >>]
     : sid \in SessionPair, b \in {60}, pin \in PinLists}

NextSessions ==
  \/ version = 0 /\ upsertTools(<<CardPost, CardFind, CardList>>)
  \/ Tick
  \/ calls < MaxSessionCalls /\ \E input \in PairUpdateInputs : update(input)
  \/ calls < MaxSessionCalls
       /\ \E sid \in SessionPair, id \in {"s:post_msg", "g:list"} : markUsed(sid, id)
  \/ calls < MaxSessionCalls /\ \E sid \in SessionPair : get(sid)
  \/ calls < MaxSessionCalls /\ \E sid \in SessionPair : resetSession(sid)
  \/ \E id \in {"s:post_msg", "s:find_msg"}, value \in BOOLEAN :
        CallerWritesEntry(id, value)
  \/ \E id \in {"s:post_msg"} : CallerDeletesEntry(id)
  \/ \E id \in {"g:list"} : CallerAddsEntry(id)
  \/ CallerWritesTotals(1)

SpecSessions == InitSessions /\ [][NextSessions]_vars

\* The working-set manager with a cap of one entry, over a catalog that is
\* loaded once, and update called with two pins at once: more pins than the
\* cap admits.
CapOptionChoices ==
  {[DEFAULT_WORKING_SET_OPTIONS EXCEPT !.defaultTtlMs = 1, !.maxEntries = 1]}

InitCap == InitWith(CapOptionChoices)

CapUpdateInputs ==
  {[sessionId |-> "s1", query |-> q, budgetTokens |-> b, topK |-> << >>,
    pin |-> pin, unpin |-> unpin]
     : q \in {"msg", "list"}, b \in {60, 200},
       pin \in {<< >>, <<"s:post_msg", "g:list">>},
       unpin \in {<< >>, <<"g:list">>}}

NextCap ==
  \/ version = 0 /\ upsertTools(<<CardPost, CardFind, CardList>>)
  \/ Tick
  \/ calls < MaxCalls /\ \E input \in CapUpdateInputs : update(input)

SpecCap == InitCap /\ [][NextCap]_vars

\* The working-set manager over a catalog that is loaded once, called three
\* times: update may follow an update with the same input, after markUsed
\* has touched an entry.
AgainOptionChoices ==
  {[DEFAULT_WORKING_SET_OPTIONS EXCEPT !.defaultTtlMs = 1, !.maxEntries = n]
     : n \in {0, 1}}

InitAgain == InitWith(AgainOptionChoices)

AgainUpdateInputs ==
  {[sessionId |-> "s1", query |-> "msg", budgetTokens |-> b, topK |-> << >>,
    pin |-> pin, unpin |-> unpin]
     : b \in Budgets, pin \in PinLists, unpin \in UnpinLists}

NextAgain ==
  \/ version = 0 /\ upsertTools(<<CardPost, CardFind, CardList>>)
  \/ Tick
  \/ calls < MaxSessionCalls /\ \E input \in AgainUpdateInputs : update(input)
  \/ calls < MaxSessionCalls
       /\ \E id \in {"s:post_msg", UnknownToolId} : markUsed("s1", id)

SpecAgain == InitAgain /\ [][NextAgain]_vars

\* The BM25 engine asked for words that no card holds, over a catalog in
\* which a tool gains a popularity (CardPostV2).
BoostInputs ==
  {[query |-> q, topK |-> << >>, filters |-> NoFilters, weights |-> w,
    mode |-> << >>]
     : q \in BoostQueries \cup {"msg"},
       w \in {EmptyMap, [f \in {"description"} |-> 0]}}

NextBoost ==
  \/ \E cards \in {<<CardPost, CardFind, CardList>>, <<CardPostV2>>} :
        upsertTools(cards)
  \/ \E ids \in {<<"s:find_msg">>} : removeTools(ids)
  \/ reset
  \/ \E input \in BoostInputs : query(input)

SpecBoost == Init /\ [][NextBoost]_vars

\* ------------------------------------------------------------ properties
\* The sum of tokenCost over the entries whose toolId is in ids.
CostOf(entries, ids) ==
  LET sum[S \in SUBSET ids] ==
        IF S = {} THEN 0
        ELSE With(CHOOSE x \in S : TRUE,
                  LAMBDA id : entries[id].tokenCost + sum[S \ {id}])
  IN sum[ids]

PinnedIds(entries) == {id \in DOMAIN entries : entries[id].pinned}

\* The stored state of the session of the update that has just returned.
Updated == sessions[lastUpdate[1].input.sessionId]

\* C1: after an update, if the pinned entries alone cost no more than
\* input.budgetTokens, the stored usedTokens and result.budgetUsed are at
\* most input.budgetTokens.
C1_WithinBudgetUnlessPinnedOverflow ==
  lastUpdate # << >> =>
    (CostOf(Updated.entries, PinnedIds(Updated.entries))
        <= lastUpdate[1].input.budgetTokens
     => /\ Updated.usedTokens <= lastUpdate[1].input.budgetTokens
        /\ lastUpdate[1].result.budgetUsed <= lastUpdate[1].input.budgetTokens)

\* An update that kept a pinned entry within the budget by evicting.
C1_Witness ==
  /\ lastUpdate # << >>
  /\ PinnedIds(Updated.entries) # {}
  /\ CostOf(Updated.entries, PinnedIds(Updated.entries))
        <= lastUpdate[1].input.budgetTokens
  /\ CostOf(lastUpdate[1].afterCap, DOMAIN lastUpdate[1].afterCap)
        > lastUpdate[1].input.budgetTokens
  /\ lastUpdate[1].result.removedToolIds # << >>

\* C2: an entry that is pinned, or that the update of this step pins, and
\* that this step neither unpins nor resets, is a pinned entry of the session
\* after the step; when the step is an update its result lists the toolId in
\* selectedToolIds and not in removedToolIds.
C2_PinnedPersist ==
  [][\A sid \in SessionIds : \A id \in ToolIds :
       LET wasPinned == /\ sid \in DOMAIN sessions
                        /\ id \in DOMAIN sessions[sid].entries
                        /\ sessions[sid].entries[id].pinned
           isUpdate == lastOp' = "update" /\ lastArg'.sessionId = sid
           pinsIt == isUpdate /\ id \in Range(lastArg'.pin)
           unpinsIt == isUpdate /\ id \in Range(lastArg'.unpin)
           resetsIt == lastOp' = "resetSession" /\ lastArg' = <<sid>>
       IN ((wasPinned \/ pinsIt) /\ ~unpinsIt /\ ~resetsIt)
          => /\ sid \in DOMAIN sessions'
             /\ id \in DOMAIN sessions'[sid].entries
             /\ sessions'[sid].entries[id].pinned
             /\ isUpdate =>
                  /\ id \in Range(lastUpdate'[1].result.selectedToolIds)
                  /\ id \notin Range(lastUpdate'[1].result.removedToolIds)]_vars

\* A later update that does not pin the entry again, evicts another entry
\* and still selects the pinned one.
C2_Witness ==
  /\ lastUpdate # << >>
  /\ "s:post_msg" \notin Range(lastUpdate[1].input.pin)
  /\ "s:post_msg" \in DOMAIN lastUpdate[1].before
  /\ lastUpdate[1].before["s:post_msg"].pinned
  /\ lastUpdate[1].result.removedToolIds # << >>
  /\ "s:post_msg" \in Range(lastUpdate[1].result.selectedToolIds)

\* C3: after an update the stored usedTokens and result.budgetUsed equal the
\* sum of tokenCost over the remaining entries, and result.budgetTotal and
\* the stored budgetTokens equal input.budgetTokens.
C3_UsedTokensIsSum ==
  lastUpdate # << >> =>
    /\ Updated.usedTokens = CostOf(Updated.entries, DOMAIN Updated.entries)
    /\ lastUpdate[1].result.budgetUsed = Updated.usedTokens
    /\ lastUpdate[1].result.budgetTotal = lastUpdate[1].input.budgetTokens
    /\ Updated.budgetTokens = lastUpdate[1].input.budgetTokens

\* An update of a session that markUsed left with a stale usedTokens and the
\* default budget, and that ends with two entries.
C3_Witness ==
  /\ lastUpdate # << >>
  /\ lastUpdate[1].before # EmptyMap
  /\ Cardinality(DOMAIN Updated.entries) = 2
  /\ Updated.usedTokens = 47
  /\ lastUpdate[1].result.budgetTotal = 60

\* The ranking of C10 written as a key comparison: a ranks below b.
RanksBelow(a, b) ==
  LET sa == IF a.scoreHint = << >> THEN 0 ELSE a.scoreHint[1]
      sb == IF b.scoreHint = << >> THEN 0 ELSE b.scoreHint[1]
  IN \/ a.lastSelectedAt < b.lastSelectedAt
     \/ /\ a.lastSelectedAt = b.lastSelectedAt
        /\ \/ a.lastUsedAt < b.lastUsedAt
           \/ /\ a.lastUsedAt = b.lastUsedAt
              /\ \/ sa < sb
                 \/ sa = sb /\ LocaleLessOf[<<a.toolId, b.toolId>>]

\* C10: the entries the budget step of an update evicts are the n
\* lowest-ranked non-pinned entries, where n is the least number whose
\* removal brings the total cost within input.budgetTokens, or all of them
\* when no number does.
C10_EvictsShortestPrefix ==
  lastUpdate # << >> =>
    LET cap == lastUpdate[1].afterCap
        budget == lastUpdate[1].input.budgetTokens
        cands == DOMAIN cap \ PinnedIds(cap)
        gone == DOMAIN cap \ DOMAIN Updated.entries
        total == CostOf(cap, DOMAIN cap)
        \* the candidates that rank below id
        Below(id) == {o \in cands : RanksBelow(cap[o], cap[id])}
    IN /\ gone \subseteq cands
       /\ \A id \in gone : Below(id) \subseteq gone
       /\ \A id \in gone : total - CostOf(cap, Below(id)) > budget
       /\ gone # cands => total - CostOf(cap, gone) <= budget

\* An update whose budget step evicted one candidate and kept a
\* higher-ranked one.
C10_Witness ==
  /\ lastUpdate # << >>
  /\ LET cap == lastUpdate[1].afterCap
         gone == DOMAIN cap \ DOMAIN Updated.entries
     IN /\ gone # {}
        /\ (DOMAIN Updated.entries) \ PinnedIds(Updated.entries) # {}
        /\ \E a \in gone, b \in DOMAIN Updated.entries :
              cap[a].lastSelectedAt = cap[b].lastSelectedAt

\* C4: in every catalog state the key set of tools equals the key set of
\* docs, so stats().tools = stats().indexSize.
C4_KeysAgree ==
  /\ DOMAIN tools = DOMAIN docs
  /\ stats.tools = stats.indexSize

\* C5: the version never decreases; every operation that changes the
\* stored tools leaves it strictly greater; a snapshot whose version equals
\* the catalog's was taken of the same tool set.
C5_VersionMonotonic ==
  [][/\ version' >= version
     /\ (tools' # tools => version' > version)
     /\ (held' # << >> /\ held'[1].version = version')
          => heldSeen'[1].tools = tools']_vars

\* C6: upsertTools([]), removeTools of no present toolId and reset of an
\* empty store leave version, updatedAt, tools and docs unchanged.
C6_NoOpFrame ==
  [][(\/ lastOp' = "upsertTools" /\ lastArg' = << >>
      \/ lastOp' = "removeTools" /\ Range(lastArg') \cap DOMAIN tools = {}
      \/ lastOp' = "reset" /\ DOMAIN tools = {})
     => UNCHANGED catalogVars]_vars

\* removeTools of an absent toolId on a non-empty store, at a clock value
\* later than the last change.
C6_Witness ==
  /\ lastOp = "removeTools"
  /\ lastArg = <<UnknownToolId>>
  /\ DOMAIN tools # {}
  /\ updatedAt # toISOString(clock)

\* C7: upsertTools increments version only if an entry changed: upserting
\* cards that are all identical to the cards stored under their toolIds
\* leaves version unchanged.
C7_IdenticalKeepsVersion ==
  [][(/\ lastOp' = "upsertTools"
      /\ \A i \in 1..Len(lastArg') :
            /\ lastArg'[i].toolId \in DOMAIN tools
            /\ tools[lastArg'[i].toolId] = lastArg'[i])
     => version' = version]_vars

\* C8: a snapshot is an immutable view: the maps seen through a snapshot a
\* caller holds are those of the catalog when getSnapshot returned it.
C8_SnapshotImmutable ==
  held # << >>
    => /\ Deref(held[1].tools) = heldSeen[1].tools
       /\ Deref(held[1].docs) = heldSeen[1].docs

\* What an engine constructed now over the catalog returns for a query.
FreshResult(input) ==
  IF input.mode = <<"regex">>
  THEN RegexResult(tools, docs, input)
  ELSE With(Bm25Build(tools, docs),
            LAMBDA index : Bm25Result(index, Cardinality(DOMAIN docs), input))

\* C9: every query returns the hits and candidates a freshly constructed
\* engine over the catalog's current contents returns.
C9_IndexFresh ==
  lastOp = "query" => lastQuery[1].result = FreshResult(lastQuery[1].input)

\* The case of C11: an update of a session that had no entries, with no pins,
\* whose hits are two tools that each fit the budget alone and do not fit it
\* together.
TwoHitsOverBudget ==
  /\ lastUpdate # << >>
  /\ lastUpdate[1].before = EmptyMap
  /\ lastUpdate[1].input.pin = << >>
  /\ LET cap == lastUpdate[1].afterCap
         budget == lastUpdate[1].input.budgetTokens
     IN /\ Cardinality(DOMAIN cap) = 2
        /\ \A id \in DOMAIN cap : cap[id].tokenCost <= budget
        /\ CostOf(cap, DOMAIN cap) > budget

ListedBefore(a, b) ==
  LET sa == IF a.scoreHint = << >> THEN 0 ELSE a.scoreHint[1]
      sb == IF b.scoreHint = << >> THEN 0 ELSE b.scoreHint[1]
  IN \/ a.pinned /\ ~b.pinned
     \/ /\ a.pinned = b.pinned
        /\ \/ a.lastSelectedAt > b.lastSelectedAt
           \/ /\ a.lastSelectedAt = b.lastSelectedAt
              /\ \/ a.lastUsedAt > b.lastUsedAt
                 \/ /\ a.lastUsedAt = b.lastUsedAt
                    /\ \/ sa > sb
                       \/ sa = sb /\ LocaleLessOf[<<a.toolId, b.toolId>>]

\* C12: the selectedToolIds of an update are the toolIds of all entries the
\* session holds after it, each once, the pinned entries first, then by
\* lastSelectedAt descending, lastUsedAt descending, scoreHint descending
\* (absent as 0) and toolId ascending.
C12_SelectedOrder ==
  lastUpdate # << >> =>
    LET sel == lastUpdate[1].result.selectedToolIds
        entries == Updated.entries
    IN /\ Range(sel) = DOMAIN entries
       /\ Len(sel) = Cardinality(DOMAIN entries)
       /\ \A i \in 1..Len(sel) : \A j \in (i+1)..Len(sel) :
             ListedBefore(entries[sel[i]], entries[sel[j]])

\* An update that lists a pinned entry before a non-pinned one selected as
\* late, and lists an entry that none of its hits selected.
C12_Witness ==
  /\ lastUpdate # << >>
  /\ LET sel == lastUpdate[1].result.selectedToolIds
         entries == Updated.entries
     IN /\ Len(sel) >= 2
        /\ entries[sel[1]].pinned
        /\ \E j \in 2..Len(sel) :
             /\ ~entries[sel[j]].pinned
             /\ entries[sel[j]].lastSelectedAt >= entries[sel[1]].lastSelectedAt
             /\ ScoreOrZero(entries[sel[j]]) > ScoreOrZero(entries[sel[1]])
        /\ \E id \in DOMAIN entries :
             /\ id \in DOMAIN lastUpdate[1].before
             /\ entries[id].lastSelectedAt < lastUpdate[1].now

\* C13: whatever the caller of get does to the state it received (writing a
\* field of one of its entries, deleting or adding an entry, writing its
\* totals), the stored sessions do not change.
C13_GetReturnsDefensiveCopy ==
  [][lastOp' \in {"callerWritesEntry", "callerDeletesEntry",
                  "callerAddsEntry", "callerWritesTotals"}
       => sessions' = sessions]_vars

\* The session a call to the manager names.
OpSession == IF lastOp = "update" THEN lastArg.sessionId ELSE lastArg[1]

ManagerOps == {"get", "update", "markUsed", "resetSession"}

\* The entries a session holds; none when the manager has no state for it.
EntriesOf(sessionId) ==
  IF sessionId \in DOMAIN sessions THEN sessions[sessionId].entries
  ELSE EmptyMap

\* C14: a get, update, markUsed or reset on one session leaves the stored
\* state of every other session as it was, and what an update or a get on a
\* session returns is determined by that session's own entries, the input,
\* the hits and the clock, whatever the other sessions hold.
C14_SessionsIsolated ==
  [][lastOp' \in ManagerOps =>
       /\ \A b \in SessionPair \ {OpSession'} :
            /\ (b \in DOMAIN sessions') = (b \in DOMAIN sessions)
            /\ b \in DOMAIN sessions => sessions'[b] = sessions[b]
       /\ lastOp' = "update" =>
            lastUpdate'[1].result =
              UpdateSteps(EntriesOf(OpSession'), lastArg', lastUpdate'[1].hits,
                          clock, tools, options).result
       /\ lastOp' = "get" =>
            /\ DOMAIN got'[1].entries = DOMAIN EntriesOf(OpSession')
            /\ got'[1].sessionId = OpSession'
            /\ OpSession' \in DOMAIN sessions =>
                 /\ got'[1].budgetTokens = sessions[OpSession'].budgetTokens
                 /\ got'[1].usedTokens = sessions[OpSession'].usedTokens
    ]_vars

\* An update on one session has returned while the other session holds
\* entries that differ from the entries the update started from.
C14_Witness ==
  /\ lastOp = "update"
  /\ \E b \in SessionPair \ {OpSession} :
       /\ b \in DOMAIN sessions
       /\ sessions[b].entries # EmptyMap
       /\ sessions[b].entries # lastUpdate[1].before
       /\ sessions[b].entries # sessions[OpSession].entries

\* C15: markUsed sets lastUsedAt and lastSelectedAt of the named entry to the
\* clock and leaves its other fields (pinned among them) as they were; when
\* the session has no such entry it creates one, not pinned, with the token
\* cost estimated for the tool and the default TTL; every other entry stays
\* as it was, whatever the budget and the cap on the entries.
C15_MarkUsedTouchesOneEntry ==
  [][lastOp' = "markUsed" =>
       LET sid == lastArg'[1]
           id == lastArg'[2]
           before == EntriesOf(sid)
           after == sessions'[sid].entries
       IN /\ DOMAIN after = DOMAIN before \cup {id}
          /\ \A o \in DOMAIN before \ {id} : after[o] = before[o]
          /\ after[id].lastUsedAt = clock
          /\ after[id].lastSelectedAt = clock
          /\ id \in DOMAIN before =>
               after[id] = [before[id] EXCEPT !.lastUsedAt = clock,
                                              !.lastSelectedAt = clock]
          /\ id \notin DOMAIN before =>
               /\ after[id].toolId = id
               /\ ~after[id].pinned
               /\ after[id].tokenCost =
                    (IF id \in DOMAIN tools THEN estimateToolTokens(tools[id])
                     ELSE options.defaultTokenCost)
               /\ after[id].ttlMs =
                    (IF options.defaultTtlMs = 0 THEN << >>
                     ELSE <<options.defaultTtlMs>>)
               /\ after[id].scoreHint = << >>
    ]_vars

\* A markUsed of a pinned entry has returned, in a session that holds more
\* entries than options.maxEntries and more cost than its budget.
C15_Witness ==
  /\ lastOp = "markUsed"
  /\ LET state == sessions[lastArg[1]]
     IN /\ state.entries[lastArg[2]].pinned
        /\ state.entries[lastArg[2]].lastUsedAt = clock
        /\ clock > 0
        /\ options.maxEntries > 0
        /\ Cardinality(DOMAIN state.entries) > options.maxEntries
        /\ CostOf(state.entries, DOMAIN state.entries) > state.budgetTokens

\* The condition of C16 on an entry as it is after the pin and unpin steps.
TtlPassed(e, now) ==
  /\ ~e.pinned
  /\ e.ttlMs # << >>
  /\ e.ttlMs[1] > 0
  /\ \A last \in {e.lastUsedAt, e.lastSelectedAt} :
        (last >= e.lastUsedAt /\ last >= e.lastSelectedAt)
          => now - last > e.ttlMs[1]

\* C16: the entries the TTL step of an update deletes are exactly those
\* that, after the pin and unpin steps, are not pinned, have a ttlMs above 0
\* and were last used or selected more than ttlMs before the clock of the
\* update; each of them is in removedToolIds; an entry without a ttlMs
\* (the manager's defaultTtlMs is 0) is never deleted by the step.
C16_TtlExpiry ==
  lastUpdate # << >> =>
    LET u == lastUpdate[1]
        expired == DOMAIN u.afterPins \ DOMAIN u.afterTtl
    IN /\ DOMAIN u.afterTtl \subseteq DOMAIN u.afterPins
       /\ \A id \in DOMAIN u.afterPins :
            (id \in expired) = TtlPassed(u.afterPins[id], u.now)
       /\ expired \subseteq Range(u.result.removedToolIds)
       /\ options.defaultTtlMs = 0 => expired = {}

\* An update whose TTL step deleted an entry and kept a pinned entry that
\* was last touched as long ago.
C16_Witness ==
  /\ lastUpdate # << >>
  /\ LET u == lastUpdate[1]
         expired == DOMAIN u.afterPins \ DOMAIN u.afterTtl
     IN /\ expired # {}
        /\ \E id \in DOMAIN u.afterTtl :
             /\ u.afterPins[id].pinned
             /\ u.afterPins[id].ttlMs = <<1>>
             /\ u.now - u.afterPins[id].lastSelectedAt > 1
             /\ u.now - u.afterPins[id].lastUsedAt > 1

\* C17: an entry leaves a session only in an update on that session that
\* reports it in removedToolIds or in a reset of that session; get, markUsed
\* and every other step keep all entries; reset leaves the manager without a
\* state for the session, no step other than a call for that session gives
\* it one, and a get of a session without a state returns no entries,
\* usedTokens 0 and the configured default budget.
C17_EntriesLeaveByUpdateOrReset ==
  [][/\ \A sid \in SessionPair : \A id \in DOMAIN EntriesOf(sid) :
          id \notin DOMAIN EntriesOf(sid)' =>
             /\ OpSession' = sid
             /\ \/ lastOp' = "resetSession"
                \/ /\ lastOp' = "update"
                   /\ id \in Range(lastUpdate'[1].result.removedToolIds)
     /\ lastOp' = "resetSession" => OpSession' \notin DOMAIN sessions'
     /\ \A sid \in SessionPair :
          (sid \notin DOMAIN sessions /\ sid \in DOMAIN sessions')
             => lastOp' \in ManagerOps \ {"resetSession"} /\ OpSession' = sid
     /\ (lastOp' = "get" /\ OpSession' \notin DOMAIN sessions) =>
          /\ got'[1].entries = EmptyMap
          /\ got'[1].usedTokens = 0
          /\ got'[1].budgetTokens = options.defaultBudgetTokens
    ]_vars

\* A reset has just removed the state of a session whose only earlier call
\* was an update over the loaded catalog, with a budget other than the
\* configured default.
C17_Witness ==
  /\ lastOp = "resetSession"
  /\ calls = 2
  /\ sessions = EmptyMap
  /\ version = 1
  /\ bmVersion = 1
  /\ options.defaultBudgetTokens = 40

\* The query an update makes for its input, as a search input that carries
\* the caller's mode.
QueryOfUpdate(input) ==
  [query |-> input.query,
   topK |-> <<IF input.topK = << >> THEN options.defaultTopK
              ELSE input.topK[1]>>,
   filters |-> << >>, weights |-> EmptyMap, mode |-> input.mode]

\* C18: the hits an update adds or refreshes are the hits the search engine
\* returns for the query in the caller's mode; for mode "regex", those of
\* the regex engine.
C18_UpdateQueriesInCallersMode ==
  (lastUpdate # << >> /\ "mode" \in DOMAIN lastUpdate[1].input) =>
     lastUpdate[1].hits = FreshResult(QueryOfUpdate(lastUpdate[1].input)).hits

\* C19: a query with the empty string returns no hits, in either mode and
\* whatever the catalog holds.
C19_EmptyQueryNoHits ==
  (lastQuery # << >> /\ lastQuery[1].input.query = "") =>
     lastQuery[1].result.hits = << >>

\* What the engine that answered the last query returns for the same query
\* with a topK above the number of documents: the full ranking.
FullRanking ==
  QueryStep([lastQuery[1].input
               EXCEPT !.topK = <<Cardinality(DOMAIN docs) + 1>>]).result

\* C20: the hits of a query are the first min(topK, n) elements of the full
\* ranking of the n documents that pass the filters and the threshold, none
\* for a topK of 0 or less; candidates.after is n and candidates.before is
\* the number of documents of the catalog, whatever topK is.
C20_TopKTruncates ==
  lastQuery # << >> =>
    \E full \in {FullRanking.hits} :
      LET q == lastQuery[1].input
          r == lastQuery[1].result
          n == Len(full)
          k == IF q.topK = << >> THEN defaultTopK ELSE q.topK[1]
          len == IF k <= 0 THEN 0 ELSE IF k < n THEN k ELSE n
      IN /\ Len(r.hits) = len
         /\ \A i \in 1..len : r.hits[i] = full[i]
         /\ r.candidates.after = n
         /\ r.candidates.before = Cardinality(DOMAIN docs)

\* A query with a topK of 0 or less over a catalog in which some documents
\* pass the filters and the threshold and some do not.
C20_Witness ==
  /\ lastQuery # << >>
  /\ lastQuery[1].input.topK # << >>
  /\ lastQuery[1].input.topK[1] <= 0
  /\ lastQuery[1].result.hits = << >>
  /\ lastQuery[1].result.candidates.after >= 1
  /\ lastQuery[1].result.candidates.before > lastQuery[1].result.candidates.after

\* C21: the hits of every query hold each toolId at most once and are in
\* the order of score descending, hits of equal score by toolId ascending.
C21_HitsOrdered ==
  lastQuery # << >> =>
    LET hits == lastQuery[1].result.hits
    IN \A i \in 1..Len(hits) : \A j \in (i+1)..Len(hits) :
         /\ hits[i].toolId # hits[j].toolId
         /\ \/ hits[i].score > hits[j].score
            \/ /\ hits[i].score = hits[j].score
               /\ CodeUnitLessOf[<<hits[i].toolId, hits[j].toolId>>]

\* A query has returned three hits of one score.
C21_Witness ==
  /\ lastQuery # << >>
  /\ LET hits == lastQuery[1].result.hits
     IN /\ Len(hits) >= 3
        /\ \A i \in 1..(Len(hits) - 1) : hits[i].score = hits[i+1].score

\* The condition of C22: the tool passes every list of the filters that is
\* supplied and not empty.
PassesFilters(tool, filters) ==
  filters # << >> =>
    LET fl == filters[1]
        Supplied(list) == list # << >> /\ list[1] # << >>
    IN /\ Supplied(fl.serverIds) =>
            \E i \in 1..Len(fl.serverIds[1]) :
               MapLower(fl.serverIds[1][i]) = MapLower(tool.serverId)
       /\ Supplied(fl.sideEffects) =>
            \E i \in 1..Len(fl.sideEffects[1]) :
               fl.sideEffects[1][i] =
                 (IF tool.sideEffect = << >> THEN "none" ELSE tool.sideEffect[1])
       /\ Supplied(fl.tags) =>
            \E i \in 1..Len(fl.tags[1]) : \E j \in 1..Len(tool.tags) :
               MapLower(fl.tags[1][i]) = MapLower(tool.tags[j])

\* C22: every hit is a tool that passes the filters of the query,
\* candidates.after counts no more than the documents whose tool passes
\* them, and candidates.before is the number of documents of the catalog
\* whatever the filters are.
C22_HitsPassFilters ==
  lastQuery # << >> =>
    LET q == lastQuery[1].input
        r == lastQuery[1].result
        passing == {id \in DOMAIN docs \cap DOMAIN tools :
                      PassesFilters(tools[id], q.filters)}
    IN /\ \A i \in 1..Len(r.hits) : r.hits[i].toolId \in passing
       /\ r.candidates.after <= Cardinality(passing)
       /\ r.candidates.after >= Len(r.hits)
       /\ r.candidates.before = Cardinality(DOMAIN docs)

\* What each query of RepeatInputs returns when it is the next call.
AnswerNow == [q \in RepeatInputs |-> QueryStep(q).result]

\* C23: a query changes nothing of the catalog and returns the result that
\* was due for its input, and a step that leaves the catalog as it is (a
\* query of any mode, weights, filters or topK among them) leaves the result
\* of every query as it was: the same input, asked again over an unchanged
\* catalog, gets the same hits and candidates.
C23_SearchDeterministic ==
  [][/\ lastOp' = "query" =>
          /\ catalogVars' = catalogVars
          /\ lastQuery'[1].result = AnswerNow[lastArg']
     /\ catalogVars' = catalogVars => AnswerNow' = AnswerNow
    ]_vars

\* A query has returned hits that a query of the other mode, asked before it
\* over the same catalog, did not return.
C23_Witness ==
  /\ lastOp = "query"
  /\ lastQuery[1].result.hits # << >>
  /\ bmVersion = version
  /\ rxVersion = version
  /\ \E q \in RepeatInputs :
        /\ q.mode # lastQuery[1].input.mode
        /\ AnswerNow[q].hits # lastQuery[1].result.hits
        /\ AnswerNow[q].hits # << >>

\* The request the daemon just handled was answered with an error.
AnsweredWithError ==
  lastOp' = "handleLine" /\ stdout' # << >> /\ "error" \in DOMAIN stdout'[1]

\* C24: a request answered with an error leaves the catalog and the
\* sessions exactly as they were: nothing of the rejected batch is stored,
\* version is unchanged, and tools and docs still have the same keys.
C24_ErrorLeavesStateAlone ==
  [][AnsweredWithError =>
       /\ catalogVars' = catalogVars
       /\ sessions' = sessions
       /\ DOMAIN tools' = DOMAIN docs'
    ]_vars

\* C25: a request object without an id member is never answered, and a
\* request object with an id member is answered exactly once, with that id.
C25_NotificationsUnanswered ==
  (lastOp = "handleLine" /\ lastArg.json = "object") =>
     IF lastArg.id = << >>
     THEN stdout = << >>
     ELSE Len(stdout) = 1 /\ stdout[1].id = lastArg.id[1]

\* The prefixes of a text that end between two code points.
WholePrefixes(text) ==
  {slice(text, n) : n \in {k \in 0 .. Len(text) :
      ~(k > 0 /\ k < Len(text) /\ text[k] = HighSurrogate
          /\ text[k + 1] = LowSurrogate)}}

\* C27: truncateByBytes returns the longest prefix of whole code points
\* that encodes to at most maxBytes bytes, and droppedBytes is the byte
\* length of the input less the byte length of the returned text.
C27_TruncatesAtCodePoints ==
  lastOp = "truncateByBytes" =>
    \E out \in {returned[1]} :
      /\ out.text \in WholePrefixes(lastArg.text)
      /\ byteLengthOf(out.text) <= lastArg.maxBytes
      /\ \A p \in WholePrefixes(lastArg.text) :
           byteLengthOf(p) <= lastArg.maxBytes => Len(p) <= Len(out.text)
      /\ out.droppedBytes
           = byteLengthOf(lastArg.text) - byteLengthOf(out.text)

\* The value with its keys sorted, "[Circular]" in the place of each
\* reference to an enclosing object and every other object written out.
RECURSIVE AncestorsCut(_)
AncestorsCut(value) ==
  CASE value.t = "ref" -> Circular
    [] value.t = "array" ->
         Arr(<< >>, [i \in 1 .. Len(value.items) |->
                       AncestorsCut(value.items[i])])
    [] value.t = "object" ->
         Obj(<< >>, [k \in DOMAIN value.fields |->
                       AncestorsCut(value.fields[k])])
    [] OTHER -> value

\* C30: stableStringify writes "[Circular]" for a reference to an object
\* that encloses it and for nothing else: an object that occurs twice
\* without enclosing itself is written out in full both times.
C30_CircularOnlyForAncestors ==
  lastOp = "stableStringify" =>
    returned[1] = JSONstringify(AncestorsCut(lastArg.value))

\* The options reduce merged for the call it just answered.
MergedOptions == mergePolicy(lastArg.policy)

\* C26 as stated: reduce returns droppedBytes >= 0 and a text of at most
\* maxTextBytes bytes, for every raw result and every policy.
C26_TextWithinMaxTextBytes ==
  lastOp = "reduce" =>
    /\ returned[1].droppedBytes >= 0
    /\ byteLengthOf(returned[1].text) <= MergedOptions.maxTextBytes

\* C26, amended: reduce returns droppedBytes >= 0 and a text of at most
\* maxTextBytes bytes, the error tag included, and the empty text where
\* maxTextBytes is negative.
C26_TextWithinCap ==
  lastOp = "reduce" =>
    /\ returned[1].droppedBytes >= 0
    /\ byteLengthOf(returned[1].text)
         <= (IF MergedOptions.maxTextBytes > 0
             THEN MergedOptions.maxTextBytes ELSE 0)

\* An error result whose tagged text was cut to a cap that leaves room for
\* more than the tag.
C26_Witness ==
  /\ lastOp = "reduce"
  /\ returned[1].notes = <<"is_error", "text_truncated">>
  /\ MergedOptions.maxTextBytes = 10
  /\ Len(returned[1].text) > Len(ErrorTag)

\* The raw result of the last reduce is a string no longer than either
\* byte budget.
StringWithinBudgets ==
  /\ lastOp = "reduce"
  /\ lastArg.rawResult.t = "string"
  /\ byteLengthOf(lastArg.rawResult.v) <= MergedOptions.maxTextBytes
  /\ byteLengthOf(lastArg.rawResult.v) <= MergedOptions.maxStructuredBytes

\* The text, trimmed, is the JSON text of an array or an object.
HoldsJson(text) == \E v \in JsonDocuments : JSONstringify(v) = trim(text)

RECURSIVE TrimmedTo(_, _, _)
TrimmedTo(value, opts, depth) ==
  IF depth >= opts.maxDepth THEN Truncated
  ELSE IF value.t = "array"
  THEN Arr(<< >>,
           [i \in 1 .. Min(Len(value.items), opts.maxStructuredItems) |->
              TrimmedTo(value.items[i], opts, depth + 1)])
  ELSE IF value.t = "object"
  THEN LET keys == SortedKeys(value.fields)
           kept == {keys[i] : i \in 1 .. Min(Len(keys),
                                             opts.maxStructuredKeys)}
       IN Obj(<< >>, [k \in kept |->
                        TrimmedTo(value.fields[k], opts, depth + 1)])
  ELSE value

\* C29: a structured value that reduce returns is its source cut to the
\* limits (first items, lexicographically first keys, "[Truncated]" at
\* maxDepth) and serializes to at most maxStructuredBytes; where reduce
\* returns none for a source, the notes hold structured_dropped and
\* droppedBytes includes the source's serialized size.
C29_StructuredWithinLimits ==
  lastOp = "reduce" =>
    \E source \in {Normalized(lastArg.rawResult).structured} :
      source # << >> =>
        IF returned[1].structured # << >>
        THEN /\ returned[1].structured[1]
                  = TrimmedTo(source[1], MergedOptions, 0)
             /\ byteLengthOf(stableStringify(returned[1].structured[1]))
                  <= MergedOptions.maxStructuredBytes
        ELSE /\ \E i \in 1 .. Len(returned[1].notes) :
                  returned[1].notes[i] = "structured_dropped"
             /\ returned[1].droppedBytes
                  >= byteLengthOf(stableStringify(source[1]))

\* C31: tokenizing the normalized text gives the tokens of the text, for
\* every text and every tokenizer configuration.
C31_NormalizeKeepsTokens ==
  lastOp = "tokenize" => returned[1].ofNormalized = returned[1].tokens

\* The pinned entries of the update that has just returned, as they stood
\* after its pin and unpin steps.
PinnedOfUpdate == PinnedIds(lastUpdate[1].afterPins)

PinnedOverflow ==
  /\ lastUpdate # << >>
  /\ CostOf(lastUpdate[1].afterPins, PinnedOfUpdate)
       > lastUpdate[1].input.budgetTokens

\* C32: when the pinned entries cost more than budgetTokens, update returns,
\* keeps every pinned entry, evicts every non-pinned entry (the hits of the
\* same update included) and reports budgetUsed equal to the pinned entries'
\* cost, which is greater than budgetTotal.
C32_PinnedOverflowKeepsPinsOnly ==
  PinnedOverflow =>
    /\ DOMAIN Updated.entries = PinnedOfUpdate
    /\ \A id \in PinnedOfUpdate : Updated.entries[id].pinned
    /\ \A i \in 1..Len(lastUpdate[1].hits) :
          lastUpdate[1].hits[i].toolId \notin PinnedOfUpdate
            => /\ lastUpdate[1].hits[i].toolId \notin DOMAIN Updated.entries
               /\ lastUpdate[1].hits[i].toolId
                    \notin Range(lastUpdate[1].result.selectedToolIds)
    /\ lastUpdate[1].result.budgetUsed
         = CostOf(Updated.entries, PinnedOfUpdate)
    /\ lastUpdate[1].result.budgetUsed > lastUpdate[1].result.budgetTotal
    /\ Updated.usedTokens = lastUpdate[1].result.budgetUsed

\* An update whose pins overflow the budget while its query hit a tool that
\* is not pinned.
C32_Witness ==
  /\ PinnedOverflow
  /\ PinnedOfUpdate # {}
  /\ \E i \in 1..Len(lastUpdate[1].hits) :
        /\ lastUpdate[1].hits[i].toolId \notin PinnedOfUpdate
        /\ lastUpdate[1].hits[i].toolId \notin DOMAIN lastUpdate[1].before

\* The entries the max-entries step of the update evicted.
CapEvicted ==
  DOMAIN lastUpdate[1].afterHits \ DOMAIN lastUpdate[1].afterCap

Max(a, b) == IF a > b THEN a ELSE b

\* C33: with maxEntries > 0, after an update the session holds at most
\* max(maxEntries, number of pinned entries) entries; the cap step runs on the
\* entries as the hits left them, evicts non-pinned entries only, lowest
\* eviction rank first and only while the count exceeds the cap, and every
\* entry it evicts is in removedToolIds and not in addedToolIds.
C33_CapOnEntries ==
  (lastUpdate # << >> /\ options.maxEntries > 0) =>
    LET u == lastUpdate[1]
        pinned == PinnedIds(u.afterHits)
        kept == DOMAIN u.afterCap
    IN /\ Cardinality(DOMAIN Updated.entries)
            <= Max(options.maxEntries, Cardinality(PinnedIds(Updated.entries)))
       /\ kept \subseteq DOMAIN u.afterHits
       /\ \A id \in kept : u.afterCap[id] = u.afterHits[id]
       /\ pinned \subseteq kept
       /\ Cardinality(kept)
            = IF Cardinality(DOMAIN u.afterHits) <= options.maxEntries
              THEN Cardinality(DOMAIN u.afterHits)
              ELSE Max(options.maxEntries, Cardinality(pinned))
       /\ \A gone \in CapEvicted : \A id \in kept \ pinned :
             ~RanksBelow(u.afterHits[id], u.afterHits[gone])
       /\ DOMAIN Updated.entries \subseteq kept
       /\ \A gone \in CapEvicted :
             /\ gone \in Range(u.result.removedToolIds)
             /\ gone \notin Range(u.result.addedToolIds)
             /\ gone \notin DOMAIN Updated.entries

\* An update that left more pinned entries than the cap admits, all of them
\* kept, while its cap step evicted an entry that the same update had added.
C33_Witness ==
  /\ lastUpdate # << >>
  /\ options.maxEntries > 0
  /\ Cardinality(PinnedIds(Updated.entries)) > options.maxEntries
  /\ \E gone \in CapEvicted : gone \notin DOMAIN lastUpdate[1].before

\* The entry's TTL has passed at `now`, pinned or not.
Lapsed(e, now) ==
  /\ e.ttlMs # << >>
  /\ e.ttlMs[1] > 0
  /\ now - Max(e.lastUsedAt, e.lastSelectedAt) > e.ttlMs[1]

\* The entries of the session that had lapsed when the update was called.
LapsedBefore ==
  {id \in DOMAIN lastUpdate[1].before :
     Lapsed(lastUpdate[1].before[id], lastUpdate[1].now)}

HitIds == {lastUpdate[1].hits[i].toolId : i \in 1..Len(lastUpdate[1].hits)}

\* C34: the steps of an update take effect in the listed order.  A lapsed
\* entry named in pin outlives the TTL step, and the update if no unpin names
\* it; a pinned lapsed entry named in unpin (and not in pin) is expired; a
\* lapsed non-pinned entry that the query hits is deleted by the TTL step and
\* created again by the hit with lastUsedAt = 0; the cap step works on the
\* entries the hits left and the budget step on the entries the cap left.
C34_StepsInListedOrder ==
  lastUpdate # << >> =>
    LET u == lastUpdate[1]
        pin == Range(u.input.pin)
        unpin == Range(u.input.unpin)
    IN /\ \A id \in LapsedBefore \cap pin :
            /\ id \in DOMAIN u.afterTtl
            /\ id \notin unpin =>
                 /\ id \in DOMAIN Updated.entries
                 /\ Updated.entries[id].pinned
                 /\ id \notin Range(u.result.removedToolIds)
       /\ \A id \in (LapsedBefore \cap unpin) \ pin :
            /\ id \notin DOMAIN u.afterTtl
            /\ id \in Range(u.result.removedToolIds)
       /\ \A id \in LapsedBefore \ pin :
            (~u.afterPins[id].pinned /\ id \in HitIds) =>
               /\ id \notin DOMAIN u.afterTtl
               /\ id \in DOMAIN u.afterHits
               /\ u.afterHits[id].lastUsedAt = 0
               /\ u.afterHits[id].lastSelectedAt = u.now
               /\ ~u.afterHits[id].pinned
               /\ u.afterHits[id].scoreHint # << >>
       /\ DOMAIN u.afterHits = DOMAIN u.afterTtl \cup HitIds
       /\ DOMAIN u.afterCap \subseteq DOMAIN u.afterHits
       /\ DOMAIN Updated.entries \subseteq DOMAIN u.afterCap
       /\ (options.maxEntries > 0 /\ PinnedIds(u.afterHits) = {}) =>
             Cardinality(DOMAIN u.afterCap)
               = Min(Cardinality(DOMAIN u.afterHits), options.maxEntries)
       /\ DOMAIN Updated.entries # DOMAIN u.afterCap =>
             CostOf(u.afterCap, DOMAIN u.afterCap) > u.input.budgetTokens

\* An update that unpins a pinned entry whose TTL has passed and whose query
\* hits that entry: the TTL step deletes it and the hit creates it again.
C34_Witness ==
  /\ lastUpdate # << >>
  /\ \E id \in (LapsedBefore \cap Range(lastUpdate[1].input.unpin)) \ Range(lastUpdate[1].input.pin) :
        /\ lastUpdate[1].before[id].pinned
        /\ id \in HitIds
        /\ id \notin DOMAIN lastUpdate[1].afterTtl
        /\ id \in DOMAIN lastUpdate[1].afterHits

\* C35: in the result of an update, removedToolIds names no toolId that is
\* still among the session's entries or in selectedToolIds, addedToolIds is
\* a subset of selectedToolIds and disjoint from removedToolIds, and both
\* lists are in ascending order without repetition.
C35_IdListsConsistent ==
  lastUpdate # << >> =>
    LET r == lastUpdate[1].result
        added == Range(r.addedToolIds)
        removed == Range(r.removedToolIds)
        selected == Range(r.selectedToolIds)
        Ascending(ids) ==
          \A i \in 1..(Len(ids) - 1) : CodeUnitLessOf[<<ids[i], ids[i+1]>>]
    IN /\ removed \cap DOMAIN Updated.entries = {}
       /\ removed \cap selected = {}
       /\ added \subseteq selected
       /\ added \cap removed = {}
       /\ Ascending(r.addedToolIds)
       /\ Ascending(r.removedToolIds)

\* C36: a markUsed call on a session that exists leaves that session's
\* budgetTokens as it was, so the budget set by the last update is what get
\* returns after any number of markUsed calls.
C36_MarkUsedKeepsBudget ==
  [][(lastOp' = "markUsed" /\ calls' = calls + 1
        /\ lastArg'[1] \in DOMAIN sessions)
       => sessions'[lastArg'[1]].budgetTokens
            = sessions[lastArg'[1]].budgetTokens]_vars

\* C37: the state that get returns has usedTokens equal to the sum of
\* tokenCost over the session's entries, whatever calls came before.
C37_UsedTokensIsSumOfCosts ==
  (lastOp = "get" /\ got # << >>) =>
    got[1].usedTokens
      = CostOf(sessions[got[1].sessionId].entries, DOMAIN got[1].entries)

\* The step is a call of the working-set manager.
ManagerCall == calls' = calls + 1

\* The entries of a session that this step leaves in place: those it neither
\* deletes nor, in an update, deletes and creates again.
KeptEntries(sid) ==
  IF sid \notin DOMAIN sessions \/ sid \notin DOMAIN sessions'
  THEN {}
  ELSE IF lastUpdate' # << >> /\ ManagerCall
            /\ lastUpdate'[1].input.sessionId = sid
       THEN DOMAIN sessions[sid].entries \cap DOMAIN sessions'[sid].entries
              \cap DOMAIN lastUpdate'[1].afterTtl
       ELSE DOMAIN sessions[sid].entries \cap DOMAIN sessions'[sid].entries

\* C38: a step that is no call of the manager (upsertTools, removeTools,
\* reset of the catalog, the clock) leaves every session as it was; an entry
\* keeps its tokenCost for as long as it exists; and an entry whose tool is
\* no longer in the catalog stays in the entries and in selectedToolIds of
\* an update unless that update reports it removed.
C38_CatalogLeavesSessionsAlone ==
  [][/\ ~ManagerCall => sessions' = sessions
     /\ \A sid \in SessionIds : \A id \in KeptEntries(sid) :
           sessions'[sid].entries[id].tokenCost
             = sessions[sid].entries[id].tokenCost
     /\ (ManagerCall /\ lastUpdate' # << >>) =>
           \A id \in DOMAIN lastUpdate'[1].before \ DOMAIN tools :
              id \notin Range(lastUpdate'[1].result.removedToolIds)
                => /\ id \in DOMAIN sessions'[lastUpdate'[1].input.sessionId].entries
                   /\ id \in Range(lastUpdate'[1].result.selectedToolIds)]_vars

\* After an update, the session holds an entry that an earlier query created
\* and whose tool has since left the catalog, or whose tokenCost is no longer
\* the one the catalog's card gives.
C38_Witness ==
  /\ lastUpdate # << >>
  /\ \E id \in DOMAIN lastUpdate[1].before \cap DOMAIN Updated.entries :
        /\ Updated.entries[id].scoreHint # << >>
        /\ id \notin DOMAIN tools
        /\ Updated.entries[id].tokenCost # options.defaultTokenCost

\* The step is an update that follows an update of the same input directly:
\* no other call, no clock advance and no catalog change lies between them.
UpdateAgain ==
  /\ lastUpdate # << >>
  /\ lastUpdate' # << >>
  /\ calls' = calls + 1
  /\ lastUpdate'[1].input = lastUpdate[1].input
  /\ lastUpdate'[1].now = lastUpdate[1].now

SameOutcome ==
  /\ sessions'[lastUpdate[1].input.sessionId] = Updated
  /\ lastUpdate'[1].result.selectedToolIds = lastUpdate[1].result.selectedToolIds
  /\ lastUpdate'[1].result.budgetUsed = lastUpdate[1].result.budgetUsed

\* C39 as stated: an update that follows an update of the same input at the
\* same clock value leaves the session as the first left it and returns the
\* same selectedToolIds and budgetUsed.
C39_UpdateIdempotent == [][UpdateAgain => SameOutcome]_vars

\* The entries that the cap and the budget step of the last update evicted.
EvictedByUpdate == DOMAIN lastUpdate[1].afterHits \ DOMAIN Updated.entries

\* The entries that the last update created: by a pin, or by a hit, also
\* after its TTL step had deleted them.
CreatedByUpdate ==
  DOMAIN lastUpdate[1].afterHits
    \ (DOMAIN lastUpdate[1].before \cap DOMAIN lastUpdate[1].afterTtl)

\* C39, amended: the second of two such updates leaves the session as the
\* first left it and returns the same selectedToolIds and budgetUsed,
\* provided every entry that the first one evicted by the cap or the budget
\* had been created by it or was last selected before the clock value of
\* the call.
C39_IdempotentUnlessEvictedStale ==
  [][(UpdateAgain
        /\ \A id \in EvictedByUpdate \ CreatedByUpdate :
              lastUpdate[1].afterHits[id].lastSelectedAt < lastUpdate[1].now)
       => SameOutcome]_vars

\* The session after the second of two updates with the same input at one
\* clock value, the first of which evicted an entry that its query hit.
C39_Witness ==
  /\ lastUpdate # << >>
  /\ calls >= 2
  /\ lastUpdate[1].before = Updated.entries
  /\ lastUpdate[1].result.addedToolIds = << >>
  /\ lastUpdate[1].result.removedToolIds # << >>
  /\ HitIds \ DOMAIN Updated.entries # {}

\* The tokens of the query that led to this state.
QueryTokens == TokensOf[lastQuery[1].input.query]

\* Some token of the query occurs in one of the nine indexed fields of the
\* tool's search document.
TokenInFields(toolId) ==
  \E f \in FieldSet :
     Range(QueryTokens) \cap Range(TokensOf[docs[toolId][f]]) # {}

\* The tool's normalized name is the normalized query or starts with it.
NameMatchesQuery(toolId) ==
  StartsWith(NormalizedOf[docs[toolId].name],
             NormalizedOf[Trim(lastQuery[1].input.query)])

HasPopularity(toolId) ==
  tools[toolId].popularity # << >> /\ tools[toolId].popularity[1] > 0

\* C40: in BM25 mode, with minScore 0 and field weights that are not
\* negative, every hit is a tool of the catalog for which the query has a
\* token and which holds a query token in an indexed field, or whose
\* normalized name is or starts with the normalized query, or whose
\* popularity is positive.
C40_HitsHaveACause ==
  (/\ lastQuery # << >>
   /\ lastQuery[1].input.mode = << >>
   /\ \A f \in DOMAIN lastQuery[1].input.weights :
         lastQuery[1].input.weights[f] >= 0) =>
    \A i \in 1..Len(lastQuery[1].result.hits) :
       LET toolId == lastQuery[1].result.hits[i].toolId
       IN /\ QueryTokens # << >>
          /\ toolId \in DOMAIN tools
          /\ \/ TokenInFields(toolId)
             \/ NameMatchesQuery(toolId)
             \/ HasPopularity(toolId)

\* A query without a token in any card that hits one tool by the beginning
\* of its name alone and misses the tools that have neither cause.
C40_Witness ==
  /\ lastQuery # << >>
  /\ lastQuery[1].input.mode = << >>
  /\ \E i \in 1..Len(lastQuery[1].result.hits) :
        LET toolId == lastQuery[1].result.hits[i].toolId
        IN /\ ~TokenInFields(toolId)
           /\ ~HasPopularity(toolId)
           /\ NameMatchesQuery(toolId)
  /\ \E id \in DOMAIN tools :
        id \notin {lastQuery[1].result.hits[i].toolId
                     : i \in 1..Len(lastQuery[1].result.hits)}
====
